---- MODULE Spec2Model ----
(***************************************************************************)
(* The LLM Council pipeline orchestrator (backend/app/services/            *)
(* orchestrator.py) with its response cache (backend/app/utils/cache.py),  *)
(* its stage services and the host's error classifier.                     *)
(*                                                                         *)
(* Text is modelled structurally: a query is a sequence of characters, an  *)
(* answer a sequence of sentences, a claim text a sequence of tokens, a    *)
(* backend response a record that says whether a JSON object can be parsed *)
(* from it and what that object holds.  Numbers in [0,1] are percentages   *)
(* (0.5 is 50) and the consensus score is in thousandths.  Wall-clock      *)
(* values are abstract: the clock `now` counts ticks, and stage_timings    *)
(* keeps its keys in insertion order without the durations.                *)
(***************************************************************************)
EXTENDS Integers, Sequences, FiniteSets, TLC

(* ----------------------------- bounds --------------------------------- *)
\* Clock horizon, in ticks.
MaxTime == 3
\* Number of run_pipeline calls in one behaviour of the cache specification.
MaxRuns == 2
\* The most reviews that the reviewers of one request write, all together.
MaxReviews == 4

(* ----------------------------- text ----------------------------------- *)
\* str.lower() on the characters that occur in the modelled queries.
LowerChar(c) ==
    CASE c = "A" -> "a"
      [] c = "B" -> "b"
      [] OTHER -> c

\* str.lower()
Lower(s) == [i \in 1..Len(s) |-> LowerChar(s[i])]

IsSpace(c) == c = " "

RECURSIVE LStrip(_)
LStrip(s) ==
    IF s = <<>> THEN <<>>
    ELSE IF IsSpace(Head(s)) THEN LStrip(Tail(s)) ELSE s

RECURSIVE RStrip(_)
RStrip(s) ==
    IF s = <<>> THEN <<>>
    ELSE IF IsSpace(s[Len(s)]) THEN RStrip(SubSeq(s, 1, Len(s) - 1)) ELSE s

\* str.strip()
Strip(s) == RStrip(LStrip(s))

\* s[:n] on a list
Prefix(s, n) == SubSeq(s, 1, IF Len(s) < n THEN Len(s) ELSE n)

\* dict.get(k, default)
Get(d, k, default) == IF k \in DOMAIN d THEN d[k] ELSE default

\* ' '.join(texts): a text is a sequence of tokens, joining concatenates.
RECURSIVE Join(_)
Join(texts) ==
    IF texts = <<>> THEN <<>> ELSE Head(texts) \o Join(Tail(texts))

\* model_name.lower()
LowerName(m) ==
    CASE m = "Llama-7B" -> "llama-7b"
      [] m = "GPT-OSS-20B" -> "gpt-oss-20b"
      [] OTHER -> m

\* verdict.upper()
Upper(v) ==
    CASE v = "correct" -> "CORRECT"
      [] v = "incorrect" -> "INCORRECT"
      [] v = "uncertain" -> "UNCERTAIN"
      [] v = "Correct" -> "CORRECT"
      [] OTHER -> v

(* --------------------------- exceptions -------------------------------- *)
\* The classes of error_handler.py (all derive from PipelineError) and the
\* builtin ValueError.
ParentClass(t) ==
    CASE t \in {"ModelTimeoutError", "ModelAPIError", "ValidationError"} -> "PipelineError"
      [] OTHER -> "Exception"

\* isinstance(error, cls)
IsInstance(t, cls) ==
    \/ t = cls
    \/ ParentClass(t) = cls
    \/ cls = "Exception"

Exc(t, m) == [kind |-> "exception", type |-> t, msg |-> m]

\* handle_pipeline_error: the HTTP status for an exception type.
handle_pipeline_error(t) ==
    IF IsInstance(t, "ModelTimeoutError") THEN 504
    ELSE IF IsInstance(t, "ModelAPIError") THEN 502
    ELSE IF IsInstance(t, "ValidationError") THEN 422
    ELSE IF IsInstance(t, "ValueError") THEN 400
    ELSE 500

(* ----------------------------- settings -------------------------------- *)
\* cache_ttl in ticks: one tick short of the horizon, so that an entry is
\* read both fresh and expired before the clock stops.
CacheTTL == MaxTime - 1

DefaultSettings ==
    [enable_stage1_llama |-> TRUE, enable_stage1_hf |-> TRUE,
     enable_reviewer_a |-> TRUE, enable_reviewer_b |-> TRUE,
     enable_chairman |-> TRUE,
     enable_parallel_stage1 |-> TRUE, enable_parallel_reviewers |-> TRUE,
     enable_cache |-> TRUE, cache_ttl |-> CacheTTL]

AllSettings ==
    [enable_stage1_llama : BOOLEAN, enable_stage1_hf : BOOLEAN,
     enable_reviewer_a : BOOLEAN, enable_reviewer_b : BOOLEAN,
     enable_chairman : BOOLEAN,
     enable_parallel_stage1 : BOOLEAN, enable_parallel_reviewers : BOOLEAN,
     enable_cache : BOOLEAN, cache_ttl : {CacheTTL}]

\* The flags of one stage form a group; the groups are independent.
SettingGroups ==
    {{"enable_stage1_llama", "enable_stage1_hf", "enable_parallel_stage1"},
     {"enable_reviewer_a", "enable_reviewer_b", "enable_parallel_reviewers"},
     {"enable_chairman"}, {"enable_cache"}}

\* The configurations explored: every setting of the flags of one group,
\* the other groups at their defaults.
PipelineSettings ==
    {s \in AllSettings :
        \E g \in SettingGroups :
            \A f \in (UNION SettingGroups) \ g : s[f] = DefaultSettings[f]}

(* ----------------------------- inputs ---------------------------------- *)
\* Queries as character sequences: the first three differ only by case and
\* surrounding whitespace.
Queries ==
    {<<"A", "b">>, <<" ", "a", "b", " ">>, <<"a", "B">>, <<"a", " ", "b">>}

\* Option dicts (a key that is absent takes its default in the code).
OptionSets ==
    {<<>>,
     [use_cache |-> FALSE],
     [skip_failed_models |-> FALSE],
     [enable_parallel |-> FALSE],
     [use_cache |-> TRUE, timeout |-> 30]}

\* A sentence of an answer with its length in characters.
Sentence(s, n) == [s |-> s, len |-> n]

ParisSentence == Sentence("Paris is the capital of France", 30)
ShortSentence == Sentence("Yes", 3)

\* Backend responses.  A failure carries the exception type the runner
\* raises; a text says whether a JSON object parses from it directly
\* ("json"), only after the cleanup of fences and prefixes ("dirty") or
\* not at all ("garbage"), the parsed object, and the raw text.
Failure(t) == [kind |-> "error", type |-> t]
JsonText(obj) == [kind |-> "text", shape |-> "json", obj |-> obj, raw |-> <<>>]
DirtyText(obj) == [kind |-> "text", shape |-> "dirty", obj |-> obj, raw |-> <<>>]
Garbage(raw) == [kind |-> "text", shape |-> "garbage", obj |-> <<>>, raw |-> raw]

\* What an unreachable backend makes its runner raise: a timeout or an API
\* error.  The services past Stage-1 treat every exception alike.
Stage1Failures == {Failure("ModelTimeoutError"), Failure("ModelAPIError")}
ServiceFailures == {Failure("ModelAPIError")}

Stage1Responses ==
    {JsonText([answer_text |-> <<ParisSentence>>]),
     Garbage(<<ShortSentence>>)}

\* A claim string of a paraphrase response: its text and whether whitespace
\* surrounds it; a non-string item has isstr FALSE.
ClaimStr(body, pad) == [isstr |-> TRUE, body |-> body, pad |-> pad]

ParaphraseResponses ==
    {JsonText([claims |-> <<ClaimStr("Paris is the capital of France.", FALSE)>>]),
     JsonText([claims |-> <<>>])}

\* JSON values of the fields whose type the code depends on: a string, a
\* number (a confidence in percent), null.
Str(s) == [str |-> s]
Num(n) == [num |-> n]
Null == [null |-> TRUE]
IsStr(v) == "str" \in DOMAIN v
IsNum(v) == "num" \in DOMAIN v

\* An item of a JSON list that is not an object: kind is "number", "null",
\* "string" or "list".
NonObject(kind) == [json |-> kind]
IsObject(item) == "json" \notin DOMAIN item

\* A review item as a reviewer backend writes it.
ReviewOut(id, v) ==
    [claim_id |-> id, verdict |-> Str(v), reason |-> "checked", confidence |-> Num(90)]

\* What a reviewer backend may answer about the claims it is handed.
ReviewerResponses(claims) ==
    {JsonText([reviews |-> [i \in 1..Len(claims) |-> ReviewOut(claims[i].claim_id, "correct")]]),
     JsonText([reviews |-> [i \in 1..Len(claims) |-> [claim_id |-> claims[i].claim_id, verdict |-> Str("correct")]]])}

ChairmanResponses ==
    {Garbage(<<ShortSentence>>),
     JsonText([confidence |-> 90]),
     JsonText([final_answer |-> <<"Paris.">>]),
     JsonText([final_answer |-> <<"Paris.">>, confidence |-> 90])}

(* ------------------------ tolerant JSON parsing ------------------------- *)
\* _parse_response: the object between the first '{' and the last '}'.
\* ok is FALSE where the code raises json.JSONDecodeError.
ParseResponse(resp) ==
    IF resp.shape = "json" THEN [ok |-> TRUE, obj |-> resp.obj]
    ELSE [ok |-> FALSE, obj |-> <<>>]

\* _clean_and_parse: strips code fences and "Output:"/"Result:" prefixes,
\* then parses again.
CleanAndParse(resp) ==
    IF resp.shape \in {"json", "dirty"} THEN [ok |-> TRUE, obj |-> resp.obj]
    ELSE [ok |-> FALSE, obj |-> <<>>]

\* try _parse_response except JSONDecodeError: _clean_and_parse
TolerantParse(resp) ==
    IF ParseResponse(resp).ok THEN ParseResponse(resp) ELSE CleanAndParse(resp)

(* ------------------------------ Stage-1 -------------------------------- *)
\* Length in characters of a text made of sentences.
RECURSIVE TextLen(_)
TextLen(text) ==
    IF text = <<>> THEN 0 ELSE Head(text).len + TextLen(Tail(text))

\* A variant of the slice that keeps the whole text.
TruncateNone(text, n) == text

\* response[:n] on a text made of sentences: the sentence that crosses the
\* limit is cut, the later ones are dropped.
RECURSIVE Truncate(_, _)
Truncate(text, n) ==
    IF text = <<>> \/ n <= 0 THEN <<>>
    ELSE IF Head(text).len <= n
         THEN <<Head(text)>> \o Truncate(Tail(text), n - Head(text).len)
         ELSE <<Sentence(Head(text).s, n)>>

\* PipelineOrchestrator._parse_stage1_response (no cleanup pass here)
ParseStage1Response(resp, model_name) ==
    IF ParseResponse(resp).ok
    THEN [model_name |-> model_name,
          answer_text |-> Get(resp.obj, "answer_text", <<>>),
          claims |-> Get(resp.obj, "claims", <<>>),
          citations |-> Get(resp.obj, "citations", <<>>),
          metadata |-> <<>>]
    ELSE [model_name |-> model_name,
          answer_text |-> Truncate(resp.raw, 500),
          claims |-> <<>>,
          citations |-> <<>>,
          metadata |-> [parse_error |-> TRUE]]

\* A variant of the Stage-1 call that turns a runner's exception into an
\* opinion without an answer.
CallStage1Swallow(model_name, resp) ==
    [kind |-> "value",
     value |-> ParseStage1Response(
                   IF resp.kind = "error" THEN Garbage(<<>>) ELSE resp, model_name)]

\* _call_llama7b / _call_hf_model: the runner's exception is re-raised,
\* a text is parsed into an opinion.
CallStage1(model_name, resp) ==
    IF resp.kind = "error"
    THEN Exc(resp.type, model_name)
    ELSE [kind |-> "value", value |-> ParseStage1Response(resp, model_name)]

(* ----------------------------- Paraphrase ------------------------------ *)
\* A variant of the id without the model's name.
ClaimIdNoModel(model_name, idx) == <<"", "_claim_", idx>>

\* f"{model_name.lower()}_claim_{idx}"
ClaimId(model_name, idx) == <<LowerName(model_name), "_claim_", idx>>

Claim(model_name, idx, answer_text, text) ==
    [claim_id |-> ClaimId(model_name, idx),
     original_model |-> model_name,
     original_text |-> answer_text,
     canonical_text |-> text]

\* bool(claim_text) and isinstance(claim_text, str)
ClaimTextOk(item) == item.isstr /\ (item.pad \/ item.body # "")

\* claim_text.strip(), as a text of one token (empty when nothing is left)
StripClaim(item) == IF item.body = "" THEN <<>> ELSE <<item.body>>

\* A variant of the loop that numbers the claims it emits, not the items
\* it reads.
RECURSIVE FormatClaimsDense(_, _, _, _)
FormatClaimsDense(model_name, answer_text, items, idx) ==
    IF items = <<>> THEN <<>>
    ELSE IF Head(items).isstr /\ (Head(items).pad \/ Head(items).body # "")
         THEN <<[claim_id |-> <<LowerName(model_name), "_claim_", idx>>,
                 original_model |-> model_name,
                 original_text |-> answer_text,
                 canonical_text |-> IF Head(items).body = "" THEN <<>> ELSE <<Head(items).body>>]>>
              \o FormatClaimsDense(model_name, answer_text, Tail(items), idx + 1)
         ELSE FormatClaimsDense(model_name, answer_text, Tail(items), idx)

\* The loop of extract_claims over enumerate(parsed["claims"]).
RECURSIVE FormatClaims(_, _, _, _)
FormatClaims(model_name, answer_text, items, idx) ==
    IF items = <<>> THEN <<>>
    ELSE (IF ClaimTextOk(Head(items))
          THEN <<Claim(model_name, idx, answer_text, StripClaim(Head(items)))>>
          ELSE <<>>)
         \o FormatClaims(model_name, answer_text, Tail(items), idx + 1)

\* The loop of _fallback_extraction over enumerate(sentences[:5]).
RECURSIVE FallbackClaims(_, _, _, _)
FallbackClaims(model_name, answer_text, sentences, idx) ==
    IF sentences = <<>> THEN <<>>
    ELSE (IF Head(sentences).len > 10
          THEN <<Claim(model_name, idx, answer_text, <<Head(sentences).s, ".">>)>>
          ELSE <<>>)
         \o FallbackClaims(model_name, answer_text, Tail(sentences), idx + 1)

\* ParaphraseService._fallback_extraction
FallbackExtraction(model_name, answer_text) ==
    FallbackClaims(model_name, answer_text,
                   Prefix(SelectSeq(answer_text, LAMBDA s : s.len > 0), 5), 0)

\* ParaphraseService.extract_claims
ExtractClaims(model_name, answer_text, resp) ==
    IF resp.kind = "error" THEN FallbackExtraction(model_name, answer_text)
    ELSE IF ~TolerantParse(resp).ok THEN FallbackExtraction(model_name, answer_text)
    ELSE IF "claims" \notin DOMAIN TolerantParse(resp).obj
         THEN FallbackExtraction(model_name, answer_text)
    ELSE FormatClaims(model_name, answer_text, TolerantParse(resp).obj.claims, 0)

(* ------------------------------ Review --------------------------------- *)
Verdicts == {"CORRECT", "INCORRECT", "UNCERTAIN"}

\* float(x), in percent: a number is itself, a string is parsed (ValueError
\* if it is no numeral), null is a TypeError.  ok is FALSE where it raises.
ToFloat(x) ==
    IF IsNum(x) THEN [ok |-> TRUE, value |-> x.num]
    ELSE IF IsStr(x) /\ x.str = "0.9" THEN [ok |-> TRUE, value |-> 90]
    ELSE [ok |-> FALSE, value |-> 0]

\* _validate_review raises: `field in review` on a number or on null is a
\* TypeError, and review["verdict"].upper() on a verdict that is not a
\* string is an AttributeError.
ValidateRaises(review) ==
    IF ~IsObject(review) THEN review.json \in {"number", "null"}
    ELSE /\ {"claim_id", "verdict", "reason"} \subseteq DOMAIN review
         /\ ~IsStr(review.verdict)

\* ReviewerService._validate_review, where it returns: `field in review`
\* is False for the fields of a string and of a list that do not hold them.
ValidateReview(review) ==
    /\ IsObject(review)
    /\ {"claim_id", "verdict", "reason"} \subseteq DOMAIN review
    /\ IsStr(review.verdict)
    /\ Upper(review.verdict.str) \in Verdicts

\* The dict that the loop of review_claims appends raises: float() of the
\* confidence of a valid item.
FormatRaises(review) ==
    /\ ValidateReview(review)
    /\ "confidence" \in DOMAIN review
    /\ ~ToFloat(review.confidence).ok

FormatReview(review) ==
    [claim_id |-> review.claim_id,
     verdict |-> Upper(review.verdict.str),
     reason |-> review.reason,
     evidence_needed |-> Get(review, "evidence_needed", FALSE),
     confidence |-> IF "confidence" \in DOMAIN review
                    THEN ToFloat(review.confidence).value ELSE 50]

\* model_name of the runner behind a reviewer
ReviewerModel(reviewer_name) ==
    IF reviewer_name = "Reviewer_A" THEN "Mistral-7B" ELSE "DeepSeek-7B"

\* A variant of the reviewer fallback that reviews nothing.
FallbackReviewsNone(reviewer_name, claims) ==
    [reviewer_name |-> reviewer_name, reviews |-> <<>>,
     metadata |-> [total_reviewed |-> 0, fallback |-> TRUE]]

\* A variant of the reviewer fallback that reviews the first claim only.
FallbackReviewsFirst(reviewer_name, claims) ==
    [reviewer_name |-> reviewer_name,
     reviews |-> [i \in 1..(IF claims = <<>> THEN 0 ELSE 1) |->
                    [claim_id |-> claims[i].claim_id,
                     verdict |-> "UNCERTAIN",
                     reason |-> "Unable to verify due to reviewer error",
                     evidence_needed |-> TRUE,
                     confidence |-> 30]],
     metadata |-> [total_reviewed |-> IF claims = <<>> THEN 0 ELSE 1, fallback |-> TRUE]]

\* ReviewerService._fallback_reviews
FallbackReviews(reviewer_name, claims) ==
    [reviewer_name |-> reviewer_name,
     reviews |-> [i \in 1..Len(claims) |->
                    [claim_id |-> claims[i].claim_id,
                     verdict |-> "UNCERTAIN",
                     reason |-> "Unable to verify due to reviewer error",
                     evidence_needed |-> TRUE,
                     confidence |-> 30]],
     metadata |-> [total_reviewed |-> Len(claims), fallback |-> TRUE]]

\* The formatting loop of review_claims: valid items are kept, in order.
RECURSIVE FormatReviews(_)
FormatReviews(items) ==
    IF items = <<>> THEN <<>>
    ELSE (IF ValidateReview(Head(items)) THEN <<FormatReview(Head(items))>> ELSE <<>>)
         \o FormatReviews(Tail(items))

\* The formatting loop raises at the first item that makes
\* _validate_review, .upper() or float() raise.
LoopRaises(items) ==
    \E k \in 1..Len(items) : ValidateRaises(items[k]) \/ FormatRaises(items[k])

\* ReviewerService.review_claims: never raises.  Every Exception of the
\* call, of the parse, of the structure check and of the formatting loop
\* ends in the fallback.
ReviewClaims(reviewer_name, claims, resp) ==
    IF resp.kind = "error" THEN FallbackReviews(reviewer_name, claims)
    ELSE IF ~TolerantParse(resp).ok THEN FallbackReviews(reviewer_name, claims)
    ELSE IF "reviews" \notin DOMAIN TolerantParse(resp).obj
         THEN FallbackReviews(reviewer_name, claims)
    ELSE IF LoopRaises(TolerantParse(resp).obj.reviews)
         THEN FallbackReviews(reviewer_name, claims)
    ELSE [reviewer_name |-> reviewer_name,
          reviews |-> FormatReviews(TolerantParse(resp).obj.reviews),
          metadata |-> [total_reviewed |-> Len(FormatReviews(TolerantParse(resp).obj.reviews)),
                        model |-> ReviewerModel(reviewer_name)]]

(* ---------------------------- Aggregation ------------------------------ *)
\* All reviews of all verdicts, reviewer by reviewer, in list order.
RECURSIVE AllReviews(_)
AllReviews(verdicts) ==
    IF verdicts = <<>> THEN <<>>
    ELSE Head(verdicts).reviews \o AllReviews(Tail(verdicts))

\* A variant that keeps each key at the place of its last review.
RECURSIVE LastSeen(_, _)
LastSeen(reviews, seen) ==
    IF reviews = <<>> THEN <<>>
    ELSE IF \E k \in 2..Len(reviews) : reviews[k].claim_id = Head(reviews).claim_id
         THEN LastSeen(Tail(reviews), seen)
         ELSE <<Head(reviews).claim_id>> \o LastSeen(Tail(reviews), seen)

\* The keys of reviews_by_claim in insertion order.
RECURSIVE FirstSeen(_, _)
FirstSeen(reviews, seen) ==
    IF reviews = <<>> THEN <<>>
    ELSE IF Head(reviews).claim_id \in seen
         THEN FirstSeen(Tail(reviews), seen)
         ELSE <<Head(reviews).claim_id>>
              \o FirstSeen(Tail(reviews), seen \cup {Head(reviews).claim_id})

\* reviews_by_claim[claim_id]
ReviewsOf(verdicts, claim_id) ==
    SelectSeq(AllReviews(verdicts), LAMBDA rv : rv.claim_id = claim_id)

\* claim_id in claim_lookup
InLookup(claims, claim_id) == \E i \in 1..Len(claims) : claims[i].claim_id = claim_id

\* claim_lookup[claim_id]: the dict comprehension keeps the last claim of an id.
Lookup(claims, claim_id) ==
    claims[CHOOSE i \in 1..Len(claims) :
              /\ claims[i].claim_id = claim_id
              /\ \A j \in 1..Len(claims) : claims[j].claim_id = claim_id => j <= i]

Count(reviews, v) == Len(SelectSeq(reviews, LAMBDA rv : rv.verdict = v))

\* A variant of the chain in which a tie for the most verdicts wins.
CategoryTies(reviews) ==
    IF Count(reviews, "CORRECT") = Len(reviews) THEN "supported"
    ELSE IF Count(reviews, "INCORRECT") = Len(reviews) THEN "rejected"
    ELSE IF Count(reviews, "UNCERTAIN") = Len(reviews) THEN "uncertain"
    ELSE IF /\ Count(reviews, "CORRECT") >= Count(reviews, "INCORRECT")
            /\ Count(reviews, "CORRECT") >= Count(reviews, "UNCERTAIN") THEN "supported"
    ELSE IF /\ Count(reviews, "INCORRECT") >= Count(reviews, "CORRECT")
            /\ Count(reviews, "INCORRECT") >= Count(reviews, "UNCERTAIN") THEN "rejected"
    ELSE "disputed"

\* A variant of the chain without its final else: a claim on which the
\* reviewers are split falls into no bucket.
CategoryNoElse(reviews) ==
    IF Count(reviews, "CORRECT") = Len(reviews) THEN "supported"
    ELSE IF Count(reviews, "INCORRECT") = Len(reviews) THEN "rejected"
    ELSE IF Count(reviews, "UNCERTAIN") = Len(reviews) THEN "uncertain"
    ELSE "none"

\* The if/elif chain of aggregate over the verdict counts of one claim.
Category(reviews) ==
    LET correct == Count(reviews, "CORRECT")
        incorrect == Count(reviews, "INCORRECT")
        uncertain == Count(reviews, "UNCERTAIN")
        total == Len(reviews)
    IN  IF correct = total THEN "supported"
        ELSE IF incorrect = total THEN "rejected"
        ELSE IF uncertain = total THEN "uncertain"
        ELSE IF correct > incorrect /\ correct > uncertain THEN "supported"
        ELSE IF incorrect > correct /\ incorrect > uncertain THEN "rejected"
        ELSE "disputed"

\* The canonical texts of the claims of one category, in iteration order.
RECURSIVE Bucket(_, _, _, _)
Bucket(claims, verdicts, ids, category) ==
    IF ids = <<>> THEN <<>>
    ELSE (IF /\ InLookup(claims, Head(ids))
             /\ Category(ReviewsOf(verdicts, Head(ids))) = category
          THEN <<Lookup(claims, Head(ids)).canonical_text>>
          ELSE <<>>)
         \o Bucket(claims, verdicts, Tail(ids), category)

\* round(x / y, 3) in thousandths: to the nearest, an exact tie to the even
\* neighbour.
Round3(x, y) ==
    LET q == (1000 * x) \div y
        rem == 1000 * x - q * y
    IN  IF 2 * rem > y \/ (2 * rem = y /\ q % 2 = 1) THEN q + 1 ELSE q

\* AggregatorService._calculate_consensus, in thousandths
CalculateConsensus(verdicts, total_claims) ==
    LET ids == FirstSeen(AllReviews(verdicts), {})
        multi == SelectSeq(ids, LAMBDA id : Len(ReviewsOf(verdicts, id)) >= 2)
        agree == SelectSeq(multi, LAMBDA id :
                    Cardinality({ReviewsOf(verdicts, id)[k].verdict :
                                    k \in 1..Len(ReviewsOf(verdicts, id))}) = 1)
    IN  IF ids = <<>> \/ total_claims = 0 THEN 0
        ELSE IF Len(multi) = 0 THEN 500
        ELSE Round3(Len(agree), Len(multi))

\* AggregatorService.aggregate
Aggregate(claims, verdicts) ==
    LET ids == FirstSeen(AllReviews(verdicts), {})
        known == SelectSeq(ids, LAMBDA id : InLookup(claims, id))
    IN  [total_claims |-> Len(claims),
         supported_claims |-> Bucket(claims, verdicts, ids, "supported"),
         rejected_claims |-> Bucket(claims, verdicts, ids, "rejected"),
         disputed_claims |-> Bucket(claims, verdicts, ids, "disputed"),
         uncertain_claims |-> Bucket(claims, verdicts, ids, "uncertain"),
         consensus_score |-> CalculateConsensus(verdicts, Len(claims)),
         evidence_needed_count |->
            Len(SelectSeq(known, LAMBDA id :
                    \E k \in 1..Len(ReviewsOf(verdicts, id)) :
                        ReviewsOf(verdicts, id)[k].evidence_needed))]

(* ------------------------------ Chairman ------------------------------- *)
\* ChairmanService._fallback_synthesis
FallbackSynthesis(aggregation) ==
    [final_answer |->
        IF aggregation.supported_claims # <<>>
        THEN <<"Based on verified claims:">> \o Join(Prefix(aggregation.supported_claims, 3))
        ELSE <<"Unable to provide a confident answer due to insufficient verified claims.">>,
     supporting_claims |-> Prefix(aggregation.supported_claims, 5),
     uncertain_points |-> Prefix(aggregation.uncertain_claims, 3),
     rejected_claims |-> Prefix(aggregation.rejected_claims, 3),
     citations |-> <<>>,
     confidence |-> 50,
     reasoning_summary |-> "Fallback synthesis due to chairman error."]

\* PipelineOrchestrator._fallback_chairman
FallbackChairman(aggregation) ==
    [final_answer |->
        IF aggregation.supported_claims # <<>>
        THEN Join(Prefix(aggregation.supported_claims, 3))
        ELSE <<"Unable to synthesize answer.">>,
     supporting_claims |-> Prefix(aggregation.supported_claims, 5),
     uncertain_points |-> Prefix(aggregation.uncertain_claims, 3),
     rejected_claims |-> Prefix(aggregation.rejected_claims, 3),
     citations |-> <<>>,
     confidence |-> 50,
     reasoning_summary |-> "Fallback synthesis (Chairman unavailable)"]

\* A variant of synthesize whose fallback is an empty answer.
SynthesizeNoFallback(aggregation, resp) ==
    [final_answer |-> <<>>, supporting_claims |-> <<>>, uncertain_points |-> <<>>,
     rejected_claims |-> <<>>, citations |-> <<>>, confidence |-> 0,
     reasoning_summary |-> ""]

\* ChairmanService.synthesize: never raises.
Synthesize(aggregation, resp) ==
    IF resp.kind = "error" THEN FallbackSynthesis(aggregation)
    ELSE IF ~TolerantParse(resp).ok THEN FallbackSynthesis(aggregation)
    ELSE IF "final_answer" \notin DOMAIN TolerantParse(resp).obj
         THEN FallbackSynthesis(aggregation)
    ELSE LET parsed == TolerantParse(resp).obj
         IN  [final_answer |-> parsed.final_answer,
              supporting_claims |-> Prefix(Get(parsed, "supporting_claims", <<>>), 10),
              uncertain_points |-> Prefix(Get(parsed, "uncertain_points", <<>>), 5),
              rejected_claims |-> Prefix(Get(parsed, "rejected_claims", <<>>), 5),
              citations |-> Prefix(Get(parsed, "citations", <<>>), 10),
              confidence |-> Get(parsed, "confidence", 70),
              reasoning_summary |->
                  Get(parsed, "reasoning_summary",
                      "Synthesized based on supported claims and peer review.")]

(* ------------------------------- state --------------------------------- *)
VARIABLES
    settings,   \* the configuration flags (app/config.py), fixed at start
    now,        \* the clock, in ticks
    store,      \* the diskcache store: key -> [value, expire_time]
    stats,      \* PipelineOrchestrator.stats
    run,        \* per request: the position and the locals of run_pipeline
    returned,   \* history: key -> the result handed back by the run that set it
    down,       \* environment: the backends that are unreachable
    faulty,     \* environment: the disk store raises on every access
    admin,      \* the outcome of the last POST /api/cache/clear
    health      \* check_health: its position, its probes and its report

vars == <<settings, now, store, stats, run, returned, down, faulty, admin, health>>

Backends ==
    {"Llama-7B", "GPT-OSS-20B", "GPT-J-6B", "Mistral-7B", "DeepSeek-7B", "Gemini-1.5-Pro"}

\* Request slots: the specifications below call run_pipeline sequentially.
Reqs == {1}

NoResult == [kind |-> "none"]
Value(v) == [kind |-> "value", value |-> v]
Raised(e) ==
    [kind |-> "raise", type |-> "PipelineError",
     msg |-> <<"Pipeline execution failed: ", e.msg>>, cause |-> e]

EmptyAggregation == Aggregate(<<>>, <<>>)

\* The locals of a run_pipeline call that has not started.
IdleRun ==
    [pc |-> "idle", query |-> <<>>, options |-> <<>>, request_id |-> 0,
     tasks |-> <<>>, opinions |-> <<>>,
     pidx |-> 0, presps |-> <<>>, claims |-> <<>>,
     rtasks |-> <<>>, verdicts |-> <<>>,
     aggregation |-> EmptyAggregation,
     chairman |-> NoResult,
     stage_timings |-> <<>>,
     calls |-> <<>>, cache_ops |-> <<>>,
     outcome |-> NoResult]

Task(name) == [name |-> name, status |-> "pending", resp |-> NoResult, result |-> NoResult]

(* ------------------------------- health --------------------------------- *)
\* The keys of health_checks, in the order of the dict.
ProbeNames == <<"llama_7b", "gptj_6b", "mistral_7b", "deepseek_7b", "hf_api", "gemini_api">>
ProbeSet == {ProbeNames[i] : i \in 1..Len(ProbeNames)}

\* How a probe coroutine ends: health_check returns True or False, or an
\* exception is gathered in its place (the runners' own health_check
\* catches every Exception and returns False).
ProbeResults == {"true", "false", "raise"}

\* check_health before it is called.
IdleHealth == [pc |-> "idle", probes |-> [n \in ProbeSet |-> "idle"], report |-> NoResult]

\* status_map[name]
StatusOf(result) == IF result = "true" THEN "online" ELSE "offline"
StatusMap(probes) == [n \in ProbeSet |-> StatusOf(probes[n])]

\* A variant of the rollup that asks for more than half.
OverallMajority(online_count, total_count) ==
    IF online_count = total_count THEN "healthy"
    ELSE IF 2 * online_count > total_count THEN "degraded"
    ELSE "unhealthy"

\* "Determine overall status": online_count >= total_count / 2 is a
\* comparison with a float, that is 2 * online_count >= total_count.
Overall(online_count, total_count) ==
    IF online_count = total_count THEN "healthy"
    ELSE IF 2 * online_count >= total_count THEN "degraded"
    ELSE "unhealthy"

\* The dict check_health returns (the timestamp is left out).
HealthReport(probes) ==
    [status |-> Overall(Cardinality({n \in ProbeSet : StatusMap(probes)[n] = "online"}),
                        Cardinality(ProbeSet)),
     models |-> StatusMap(probes)]

(* ------------------------------- cache ---------------------------------- *)
\* The option keys in sorted order (json.dumps(..., sort_keys=True)).
OptionKeys == <<"enable_parallel", "skip_failed_models", "timeout", "use_cache">>

\* The canonical JSON of an options dict: its items in key order.
DumpOptions(o) ==
    LET ks == SelectSeq(OptionKeys, LAMBDA k : k \in DOMAIN o)
    IN  [i \in 1..Len(ks) |-> <<ks[i], o[ks[i]]>>]

\* hashlib.sha256(...).hexdigest(), taken to be free of collisions
Sha256(text) == <<"sha256", text>>

\* A variant of _generate_key that leaves the options out.
GenerateKeyNoOptions(q, o) ==
    <<"query:", Sha256(<<<<"options", <<>>>>, <<"query", Lower(Strip(q))>>>>)>>

\* ResponseCache._generate_key
GenerateKey(q, o) ==
    <<"query:", Sha256(<<<<"options", DumpOptions(o)>>, <<"query", Lower(Strip(q))>>>>)>>

Miss == [hit |-> FALSE]
Hit(v) == [hit |-> TRUE, value |-> v]

\* A variant of the store read that ignores expiry.
StoreGetNoExpiry(st, key) ==
    IF key \in DOMAIN st THEN Hit(st[key].value) ELSE Miss

\* diskcache Cache.get(key): the value while its expire_time lies ahead.
StoreGet(st, key) ==
    IF key \in DOMAIN st /\ st[key].expire_time > now
    THEN Hit(st[key].value)
    ELSE Miss

\* A variant of the store write that keeps an entry that is already there.
StoreSetIfAbsent(st, key, value, ttl) ==
    IF key \in DOMAIN st THEN st
    ELSE [k \in DOMAIN st \cup {key} |->
            IF k = key THEN [value |-> value, expire_time |-> now + ttl] ELSE st[k]]

\* diskcache Cache.set(key, value, expire=ttl)
StoreSet(st, key, value, ttl) ==
    [k \in DOMAIN st \cup {key} |->
        IF k = key THEN [value |-> value, expire_time |-> now + ttl] ELSE st[k]]

\* diskcache Cache.delete(key)
StoreDelete(st, key) == [k \in DOMAIN st \ {key} |-> st[k]]

\* ResponseCache.get: an error of the store is logged and None returned.
CacheGet(q, o) ==
    IF ~settings.enable_cache THEN Miss
    ELSE IF faulty THEN Miss
    ELSE StoreGet(store, GenerateKey(q, o))

\* The cache metadata that ResponseCache.set writes into the response.
Stamp(response) ==
    [response EXCEPT !.metadata =
        [k \in DOMAIN response.metadata \cup {"cache_hit", "cached_at"} |->
            IF k = "cache_hit" THEN FALSE
            ELSE IF k = "cached_at" THEN now
            ELSE response.metadata[k]]]

\* A variant of set that stamps a copy and leaves the caller's dict alone.
CacheSetCopy(q, response, o) ==
    IF ~settings.enable_cache
    THEN [store |-> store, response |-> response]
    ELSE IF faulty
    THEN [store |-> store, response |-> response]
    ELSE [store |-> StoreSet(store, GenerateKey(q, o), Stamp(response), settings.cache_ttl),
          response |-> response]

\* ResponseCache.set: the new store and the response, which is stamped in
\* place (the caller's dict is the one that is written).  An error of the
\* store is raised by the write, after the stamping, and is logged.
CacheSet(q, response, o) ==
    IF ~settings.enable_cache
    THEN [store |-> store, response |-> response]
    ELSE IF faulty
    THEN [store |-> store, response |-> Stamp(response)]
    ELSE [store |-> StoreSet(store, GenerateKey(q, o), Stamp(response), settings.cache_ttl),
          response |-> Stamp(response)]

(* ---------------------------- dispatching ------------------------------- *)
Stage1Enabled(name) ==
    IF name = "Llama-7B" THEN settings.enable_stage1_llama ELSE settings.enable_stage1_hf

ReviewerEnabled(name) ==
    IF name = "Reviewer_A" THEN settings.enable_reviewer_a ELSE settings.enable_reviewer_b

\* A variant of the Stage-1 list with the hosted invoker first.
Stage1TasksHostedFirst ==
    [i \in 1..Len(SelectSeq(<<"GPT-OSS-20B", "Llama-7B">>, Stage1Enabled)) |->
        [name |-> SelectSeq(<<"GPT-OSS-20B", "Llama-7B">>, Stage1Enabled)[i],
         status |-> "pending", resp |-> NoResult, result |-> NoResult]]

\* The coroutines _run_stage1 collects, in the order it appends them.
Stage1Tasks ==
    [i \in 1..Len(SelectSeq(<<"Llama-7B", "GPT-OSS-20B">>, Stage1Enabled)) |->
        Task(SelectSeq(<<"Llama-7B", "GPT-OSS-20B">>, Stage1Enabled)[i])]

\* A variant of the reviewer list that ignores the feature flags.
ReviewTasksAll == <<Task("Reviewer_A"), Task("Reviewer_B")>>

\* The coroutines _run_review collects, in the order it appends them.
ReviewTasks ==
    [i \in 1..Len(SelectSeq(<<"Reviewer_A", "Reviewer_B">>, ReviewerEnabled)) |->
        Task(SelectSeq(<<"Reviewer_A", "Reviewer_B">>, ReviewerEnabled)[i])]

ParallelStage1(o) == Get(o, "enable_parallel", TRUE) /\ settings.enable_parallel_stage1
ParallelReview(o) == Get(o, "enable_parallel", TRUE) /\ settings.enable_parallel_reviewers

\* A variant of the wait that is satisfied by the first coroutine to end.
AnyDone(tasks) == \E i \in 1..Len(tasks) : tasks[i].status = "done"

\* await asyncio.gather(...) / the loop of awaits: every coroutine has ended.
AllDone(tasks) == \A i \in 1..Len(tasks) : tasks[i].status = "done"
Pending(tasks) == {i \in 1..Len(tasks) : tasks[i].status = "pending"}
Min(S) == CHOOSE x \in S : \A y \in S : x <= y

\* asyncio.gather(*tasks): every coroutine is started.
StartAll(tasks) ==
    [i \in 1..Len(tasks) |->
        IF tasks[i].status = "pending" THEN [tasks[i] EXCEPT !.status = "running"]
        ELSE tasks[i]]

\* A variant of the sequential loop that gives up on the coroutines not
\* yet awaited once one has raised.
StartNextCancel(tasks) ==
    IF \E i \in 1..Len(tasks) : tasks[i].status = "running" THEN tasks
    ELSE IF \E i \in 1..Len(tasks) : tasks[i].result.kind = "exception"
    THEN [i \in 1..Len(tasks) |->
            IF tasks[i].status = "pending"
            THEN [tasks[i] EXCEPT !.status = "done",
                                  !.result = [kind |-> "exception", type |-> "CancelledError",
                                              msg |-> <<"cancelled">>]]
            ELSE tasks[i]]
    ELSE IF \E i \in 1..Len(tasks) : tasks[i].status = "pending"
    THEN [tasks EXCEPT ![CHOOSE i \in 1..Len(tasks) :
                            /\ tasks[i].status = "pending"
                            /\ \A j \in 1..(i - 1) : tasks[j].status # "pending"].status = "running"]
    ELSE tasks

\* for task in tasks: await task -- the first coroutine not yet awaited is
\* started once none is running.
StartNext(tasks) ==
    IF Pending(tasks) = {} \/ \E i \in 1..Len(tasks) : tasks[i].status = "running"
    THEN tasks
    ELSE [tasks EXCEPT ![Min(Pending(tasks))].status = "running"]

Start(tasks, parallel) == IF parallel THEN StartAll(tasks) ELSE StartNext(tasks)

\* The names of the coroutines that `after` runs and `before` did not.
Started(before, after) ==
    LET idx == SelectSeq([i \in 1..Len(after) |-> i],
                         LAMBDA i : before[i].status = "pending" /\ after[i].status = "running")
    IN  [k \in 1..Len(idx) |-> after[idx[k]].name]

\* A coroutine ends with its result; in sequential dispatch the next starts.
Finish(tasks, i, resp, result, parallel) ==
    Start([tasks EXCEPT ![i].status = "done", ![i].resp = resp, ![i].result = result],
          parallel)

\* A variant of "Process results" that always skips the failed invokers.
ProcessResultsSkipping(tasks, skip, message) ==
    LET kept == SelectSeq(tasks, LAMBDA t : t.result.kind = "value")
        values == [k \in 1..Len(kept) |-> kept[k].result.value]
    IN  IF values = <<>> THEN Exc("PipelineError", message) ELSE Value(values)

\* A variant of "Process results" that raises the exception of the last
\* failed invoker.
ProcessResultsLast(tasks, skip, message) ==
    LET failed == {i \in 1..Len(tasks) : tasks[i].result.kind = "exception"}
        kept == SelectSeq(tasks, LAMBDA t : t.result.kind = "value")
        values == [k \in 1..Len(kept) |-> kept[k].result.value]
    IN  IF ~skip /\ failed # {}
        THEN tasks[CHOOSE i \in failed : \A j \in failed : j <= i].result
        ELSE IF values = <<>> THEN Exc("PipelineError", message)
        ELSE Value(values)

\* "Process results" of _run_stage1 and _run_review: the first exception is
\* raised unless skip_failed_models, truthy results are kept, and an empty
\* list raises PipelineError(message).
ProcessResults(tasks, skip, message) ==
    LET failed == {i \in 1..Len(tasks) : tasks[i].result.kind = "exception"}
        kept == SelectSeq(tasks, LAMBDA t : t.result.kind = "value")
        values == [k \in 1..Len(kept) |-> kept[k].result.value]
    IN  IF ~skip /\ failed # {} THEN tasks[Min(failed)].result
        ELSE IF values = <<>> THEN Exc("PipelineError", message)
        ELSE Value(values)

\* PipelineOrchestrator._get_models_used
ModelsUsed ==
    (IF settings.enable_stage1_llama THEN <<"Llama-7B">> ELSE <<>>)
    \o (IF settings.enable_stage1_hf THEN <<"GPT-OSS-20B">> ELSE <<>>)
    \o <<"GPT-J-6B">>
    \o (IF settings.enable_reviewer_a THEN <<"Mistral-7B">> ELSE <<>>)
    \o (IF settings.enable_reviewer_b THEN <<"DeepSeek-7B">> ELSE <<>>)
    \o (IF settings.enable_chairman THEN <<"Gemini-1.5-Pro">> ELSE <<>>)

\* A variant of the request option that is always on.
UseCacheAlways(o) == TRUE

\* options.get("use_cache", True), read before the cache check and before
\* the cache write.
UseCache(o) == Get(o, "use_cache", TRUE)

(* ------------------------------ actions --------------------------------- *)
\* run_pipeline, from its entry to the first await: the statistics, the
\* cache check and, on a miss, the dispatch of Stage-1.
RunPipeline(r, q, o, rid) ==
    /\ run[r].pc \in {"idle", "done"}
    /\ LET use == UseCache(o)
           cached == IF use THEN CacheGet(q, o) ELSE Miss
           entry == [IdleRun EXCEPT !.query = q, !.options = o, !.request_id = rid,
                                    !.cache_ops = IF use THEN <<"get">> ELSE <<>>]
           tasks == Start(Stage1Tasks, ParallelStage1(o))
       IN  IF cached.hit
           THEN /\ stats' = [stats EXCEPT !.total_queries = @ + 1, !.cache_hits = @ + 1]
                /\ run' = [run EXCEPT ![r] =
                              [entry EXCEPT !.pc = "done", !.outcome = Value(cached.value)]]
           ELSE /\ stats' = [stats EXCEPT !.total_queries = @ + 1]
                /\ run' = [run EXCEPT ![r] =
                              [entry EXCEPT !.pc = "stage1", !.tasks = tasks,
                                            !.calls = Started(Stage1Tasks, tasks)]]
    /\ UNCHANGED <<settings, now, store, returned, down, faulty, admin, health>>

\* A variant of the except branch that does not count the failure.
FailUncounted(r, e) ==
    /\ run' = [run EXCEPT ![r].pc = "done", ![r].outcome = Raised(e)]
    /\ UNCHANGED <<settings, now, store, stats, returned, down, faulty, admin, health>>

\* except Exception in run_pipeline: the failure is counted and re-raised
\* as a PipelineError.
Fail(r, e) ==
    /\ stats' = [stats EXCEPT !.failed_queries = @ + 1]
    /\ run' = [run EXCEPT ![r].pc = "done", ![r].outcome = Raised(e)]
    /\ UNCHANGED <<settings, now, store, returned, down, faulty, admin, health>>

\* A Stage-1 invoker returns: its response is parsed into an opinion, or
\* its exception is kept.
Stage1Return(r, i, resp) ==
    /\ run[r].pc = "stage1"
    /\ i \in 1..Len(run[r].tasks)
    /\ run[r].tasks[i].status = "running"
    /\ LET tasks == Finish(run[r].tasks, i, resp,
                           CallStage1(run[r].tasks[i].name, resp),
                           ParallelStage1(run[r].options))
       IN  run' = [run EXCEPT ![r].tasks = tasks,
                              ![r].calls = @ \o Started(run[r].tasks, tasks)]
    /\ UNCHANGED <<settings, now, store, stats, returned, down, faulty, admin, health>>

\* _run_stage1 after its awaits, then the first paraphrase call.
Stage1Collect(r) ==
    /\ run[r].pc = "stage1"
    /\ AllDone(run[r].tasks)
    /\ LET res == ProcessResults(run[r].tasks,
                                 Get(run[r].options, "skip_failed_models", TRUE),
                                 "All Stage-1 models failed")
       IN  IF res.kind = "exception"
           THEN Fail(r, res)
           ELSE /\ run' = [run EXCEPT ![r].pc = "paraphrase",
                                      ![r].opinions = res.value,
                                      ![r].pidx = 1,
                                      ![r].stage_timings = @ \o <<"stage1">>,
                                      ![r].calls = @ \o <<"GPT-J-6B">>]
                /\ UNCHANGED <<settings, now, store, stats, returned, down, faulty, admin, health>>

\* The paraphrase backend answers for the opinion at pidx; the loop of
\* _run_paraphrase goes on, or Review is dispatched.
ParaphraseReturn(r, resp) ==
    /\ run[r].pc = "paraphrase"
    /\ LET op == run[r].opinions[run[r].pidx]
           claims == run[r].claims \o ExtractClaims(op.model_name, op.answer_text, resp)
           tasks == Start(ReviewTasks, ParallelReview(run[r].options))
       IN  IF run[r].pidx < Len(run[r].opinions)
           THEN run' = [run EXCEPT ![r].claims = claims,
                                   ![r].presps = @ \o <<resp>>,
                                   ![r].pidx = @ + 1,
                                   ![r].calls = @ \o <<"GPT-J-6B">>]
           ELSE run' = [run EXCEPT ![r].claims = claims,
                                   ![r].presps = @ \o <<resp>>,
                                   ![r].pidx = @ + 1,
                                   ![r].pc = "review",
                                   ![r].stage_timings = @ \o <<"paraphrase">>,
                                   ![r].rtasks = tasks,
                                   ![r].calls = @ \o [k \in 1..Len(Started(ReviewTasks, tasks)) |->
                                                        ReviewerModel(Started(ReviewTasks, tasks)[k])]]
    /\ UNCHANGED <<settings, now, store, stats, returned, down, faulty, admin, health>>

\* A reviewer returns its verdict (review_claims never raises).
ReviewReturn(r, i, resp) ==
    /\ run[r].pc = "review"
    /\ i \in 1..Len(run[r].rtasks)
    /\ run[r].rtasks[i].status = "running"
    /\ LET tasks == Finish(run[r].rtasks, i, resp,
                           Value(ReviewClaims(run[r].rtasks[i].name, run[r].claims, resp)),
                           ParallelReview(run[r].options))
       IN  run' = [run EXCEPT ![r].rtasks = tasks,
                              ![r].calls = @ \o [k \in 1..Len(Started(run[r].rtasks, tasks)) |->
                                                   ReviewerModel(Started(run[r].rtasks, tasks)[k])]]
    /\ UNCHANGED <<settings, now, store, stats, returned, down, faulty, admin, health>>

\* The tail of run_pipeline: the result dict, the cache write, the counters.
Complete(r, timings, verdicts, aggregation, resp, final_answer) ==
    LET q == run[r].query
        o == run[r].options
        use == UseCache(o)
        result == [query |-> q,
                   stage1_opinions |-> run[r].opinions,
                   paraphrased_claims |-> run[r].claims,
                   reviewer_verdicts |-> verdicts,
                   aggregation |-> aggregation,
                   final_answer |-> final_answer,
                   metadata |-> [request_id |-> run[r].request_id,
                                 models_used |-> ModelsUsed,
                                 cache_hit |-> FALSE,
                                 errors |-> <<>>,
                                 warnings |-> <<>>,
                                 stage_timings |-> timings]]
        cs == IF use THEN CacheSet(q, result, o) ELSE [store |-> store, response |-> result]
        written == use /\ settings.enable_cache /\ ~faulty
    IN  /\ store' = cs.store
        /\ returned' = IF written
                       THEN [k \in DOMAIN returned \cup {GenerateKey(q, o)} |->
                                IF k = GenerateKey(q, o) THEN cs.response ELSE returned[k]]
                       ELSE returned
        /\ stats' = [stats EXCEPT !.successful_queries = @ + 1]
        /\ run' = [run EXCEPT ![r].pc = "done",
                              ![r].verdicts = verdicts,
                              ![r].aggregation = aggregation,
                              ![r].chairman = resp,
                              ![r].stage_timings = timings,
                              ![r].cache_ops = @ \o (IF use THEN <<"set">> ELSE <<>>),
                              ![r].outcome = Value(cs.response)]
        /\ UNCHANGED <<settings, now, down, faulty, admin, health>>

\* _run_review after its awaits, the aggregation, and the chairman: called
\* when enabled, else replaced by _fallback_chairman and the run completes.
ReviewCollect(r) ==
    /\ run[r].pc = "review"
    /\ AllDone(run[r].rtasks)
    /\ LET res == ProcessResults(run[r].rtasks,
                                 Get(run[r].options, "skip_failed_models", TRUE),
                                 "All reviewers failed")
           aggregation == Aggregate(run[r].claims, res.value)
           timings == run[r].stage_timings \o <<"review", "aggregation">>
       IN  IF res.kind = "exception"
           THEN Fail(r, res)
           ELSE IF settings.enable_chairman
           THEN /\ run' = [run EXCEPT ![r].pc = "chairman",
                                      ![r].verdicts = res.value,
                                      ![r].aggregation = aggregation,
                                      ![r].stage_timings = timings,
                                      ![r].calls = @ \o <<"Gemini-1.5-Pro">>]
                /\ UNCHANGED <<settings, now, store, stats, returned, down, faulty, admin, health>>
           ELSE Complete(r, timings \o <<"chairman">>, res.value, aggregation,
                         NoResult, FallbackChairman(aggregation))

\* A variant of the chairman step that asks the backend once more when its
\* first answer holds no JSON object.
ChairmanReturnRetry(r, resp) ==
    /\ run[r].pc = "chairman"
    /\ IF /\ resp.kind = "text" /\ resp.shape = "garbage"
          /\ Cardinality({k \in 1..Len(run[r].calls) : run[r].calls[k] = "Gemini-1.5-Pro"}) < 2
       THEN /\ run' = [run EXCEPT ![r].calls = @ \o <<"Gemini-1.5-Pro">>]
            /\ UNCHANGED <<settings, now, store, stats, returned, down, faulty, admin, health>>
       ELSE Complete(r, run[r].stage_timings \o <<"chairman">>, run[r].verdicts,
                     run[r].aggregation, resp, Synthesize(run[r].aggregation, resp))

\* The chairman backend answers: synthesize yields the final answer (its
\* own fallback on any failure) and the run completes.
ChairmanReturn(r, resp) ==
    /\ run[r].pc = "chairman"
    /\ Complete(r, run[r].stage_timings \o <<"chairman">>, run[r].verdicts,
                run[r].aggregation, resp, Synthesize(run[r].aggregation, resp))

\* The clock advances.
Tick ==
    /\ now < MaxTime
    /\ now' = now + 1
    /\ UNCHANGED <<settings, store, stats, run, returned, down, faulty, admin, health>>

\* ResponseCache.clear: an error of the store is logged and raised again.
CacheClear ==
    IF faulty THEN [store |-> store, raised |-> TRUE]
    ELSE [store |-> <<>>, raised |-> FALSE]

\* PipelineOrchestrator.clear_cache -> ResponseCache.clear
ClearCache ==
    /\ store' = CacheClear.store
    /\ returned' = IF faulty THEN returned ELSE <<>>
    /\ UNCHANGED <<settings, now, stats, run, down, faulty, admin, health>>

\* POST /api/cache/clear: the message, or HTTP 500 when clear_cache raises.
ClearCacheRoute ==
    /\ store' = CacheClear.store
    /\ returned' = IF faulty THEN returned ELSE <<>>
    /\ admin' = IF CacheClear.raised
                THEN [kind |-> "raise", type |-> "HTTPException", status |-> 500,
                      detail |-> "Failed to clear cache"]
                ELSE Value([message |-> "Cache cleared successfully"])
    /\ UNCHANGED <<settings, now, stats, run, down, faulty, health>>

\* ResponseCache.delete: an error of the store is logged.
CacheDelete(q, o) ==
    /\ store' = IF faulty THEN store ELSE StoreDelete(store, GenerateKey(q, o))
    /\ returned' = IF faulty THEN returned ELSE StoreDelete(returned, GenerateKey(q, o))
    /\ UNCHANGED <<settings, now, stats, run, down, faulty, admin, health>>

\* check_health up to its await: the six probes are started together.
CheckHealth ==
    /\ health.pc \in {"idle", "done"}
    /\ health' = [pc |-> "probing", probes |-> [n \in ProbeSet |-> "running"],
                  report |-> NoResult]
    /\ UNCHANGED <<settings, now, store, stats, run, returned, down, faulty, admin>>

\* A probe ends.
ProbeReturn(name, result) ==
    /\ health.pc = "probing"
    /\ health.probes[name] = "running"
    /\ health' = [health EXCEPT !.probes[name] = result]
    /\ UNCHANGED <<settings, now, store, stats, run, returned, down, faulty, admin>>

\* check_health after asyncio.gather(..., return_exceptions=True).
HealthCollect ==
    /\ health.pc = "probing"
    /\ \A n \in ProbeSet : health.probes[n] # "running"
    /\ health' = [health EXCEPT !.pc = "done", !.report = Value(HealthReport(health.probes))]
    /\ UNCHANGED <<settings, now, store, stats, run, returned, down, faulty, admin>>

(* --------------------------- specifications ----------------------------- *)
InitStats ==
    [total_queries |-> 0, successful_queries |-> 0, failed_queries |-> 0, cache_hits |-> 0]

Init ==
    /\ settings \in PipelineSettings
    /\ now = 0
    /\ store = <<>>
    /\ stats = InitStats
    /\ run = [r \in Reqs |-> IdleRun]
    /\ returned = <<>>
    /\ down \in SUBSET Backends
    /\ faulty = FALSE
    /\ admin = NoResult
    /\ health = IdleHealth

NoneInFlight == \A r \in Reqs : run[r].pc \in {"idle", "done"}

\* What a call to a backend may return: a failure when it is unreachable,
\* else one of its texts.
Answers(backend, failures, texts) == IF backend \in down THEN failures ELSE texts

\* One request against a fresh process, every configuration, every
\* behaviour of the backends.
Next ==
    \/ \E r \in Reqs, o \in OptionSets :
          /\ run[r].pc = "idle"
          /\ RunPipeline(r, <<"A", "b">>, o, 1)
    \/ \E r \in Reqs, i \in 1..2 :
          /\ i <= Len(run[r].tasks)
          /\ \E resp \in Answers(run[r].tasks[i].name, Stage1Failures, Stage1Responses) :
                Stage1Return(r, i, resp)
    \/ \E r \in Reqs : Stage1Collect(r)
    \/ \E r \in Reqs, resp \in Answers("GPT-J-6B", ServiceFailures, ParaphraseResponses) :
          ParaphraseReturn(r, resp)
    \/ \E r \in Reqs, i \in 1..2 :
          /\ i <= Len(run[r].rtasks)
          /\ \E resp \in Answers(ReviewerModel(run[r].rtasks[i].name), ServiceFailures,
                                 ReviewerResponses(run[r].claims)) :
                ReviewReturn(r, i, resp)
    \/ \E r \in Reqs : ReviewCollect(r)
    \/ \E r \in Reqs, resp \in Answers("Gemini-1.5-Pro", ServiceFailures, ChairmanResponses) :
          ChairmanReturn(r, resp)

Spec == Init /\ [][Next]_vars

\* Queries and option dicts of the cache specification: two spellings of
\* one query and a different query; no options, caching declined, and
\* options that differ from none only by a key the pipeline ignores.
CacheQueries == {<<"A", "b">>, <<" ", "a", "b", " ">>, <<"a", " ", "b">>}
CacheOptions == {<<>>, [use_cache |-> FALSE], [use_cache |-> TRUE, timeout |-> 30]}

\* Well-behaved backends: one answer each.
GoodStage1 == {JsonText([answer_text |-> <<ParisSentence>>])}
GoodParaphrase == {JsonText([claims |-> <<ClaimStr("Paris is the capital of France.", FALSE)>>])}
GoodReviews(claims) ==
    {JsonText([reviews |-> [i \in 1..Len(claims) |-> ReviewOut(claims[i].claim_id, "correct")]])}
GoodChairman == {JsonText([final_answer |-> <<"Paris.">>, confidence |-> 90])}

InitCache ==
    /\ settings \in {DefaultSettings, [DefaultSettings EXCEPT !.enable_cache = FALSE]}
    /\ now = 0
    /\ store = <<>>
    /\ stats = InitStats
    /\ run = [r \in Reqs |-> IdleRun]
    /\ returned = <<>>
    /\ down = {}
    /\ faulty = FALSE
    /\ admin = NoResult
    /\ health = IdleHealth

\* Requests one after the other against backends that answer.  The clock
\* advances between requests and while the chairman is awaited; between
\* requests the cache is cleared or entries are deleted.
NextCache ==
    \/ \E r \in Reqs, q \in CacheQueries, o \in CacheOptions :
          /\ NoneInFlight
          /\ stats.total_queries < MaxRuns
          /\ RunPipeline(r, q, o, stats.total_queries + 1)
    \/ \E r \in Reqs, i \in 1..2, resp \in GoodStage1 : Stage1Return(r, i, resp)
    \/ \E r \in Reqs : Stage1Collect(r)
    \/ \E r \in Reqs, resp \in GoodParaphrase : ParaphraseReturn(r, resp)
    \/ \E r \in Reqs, i \in 1..2 :
          \E resp \in GoodReviews(run[r].claims) : ReviewReturn(r, i, resp)
    \/ \E r \in Reqs : ReviewCollect(r)
    \/ \E r \in Reqs, resp \in GoodChairman : ChairmanReturn(r, resp)
    \/ (\A r \in Reqs : run[r].pc \in {"idle", "chairman", "done"}) /\ Tick
    \/ NoneInFlight /\ ClearCache
    \/ \E q \in CacheQueries, o \in CacheOptions : NoneInFlight /\ CacheDelete(q, o)

CacheSpec == InitCache /\ [][NextCache]_vars

(* ------------------------- vocabulary of the claims --------------------- *)
FiveStages == <<"stage1", "paraphrase", "review", "aggregation", "chairman">>

Stage1Names == {"Llama-7B", "GPT-OSS-20B"}
ReviewerModels == {"Mistral-7B", "DeepSeek-7B"}

\* The backend was called during the run of request r.
Called(r, backend) == \E k \in 1..Len(run[r].calls) : run[r].calls[k] = backend

CallCount(r, backend) ==
    Cardinality({k \in 1..Len(run[r].calls) : run[r].calls[k] = backend})

\* Every coroutine of the list has ended.
Ended(tasks) == \A i \in 1..Len(tasks) : tasks[i].status = "done"

\* Every paraphrase call made so far has been answered.
ParaphraseEnded(r) == Len(run[r].presps) = CallCount(r, "GPT-J-6B")

Returned(r) == run[r].pc = "done" /\ run[r].outcome.kind = "value"
Raises(r) == run[r].pc = "done" /\ run[r].outcome.kind = "raise"

\* The run of request r was answered from the cache.
FromCache(r) == Returned(r) /\ run[r].tasks = <<>>

\* The run of request r is past _run_stage1 / past _run_review.
Stage1Left(r) == run[r].pc \notin {"idle", "stage1"} /\ ~FromCache(r)
ReviewLeft(r) ==
    /\ run[r].pc \in {"chairman", "done"}
    /\ Ended(run[r].rtasks)
    /\ Len(run[r].stage_timings) >= 2

IsPrefix(s, t) == Len(s) <= Len(t) /\ \A i \in 1..Len(s) : s[i] = t[i]

(* -------------------------------- C1 ------------------------------------ *)
\* C1: on a cache miss the stages run strictly in the order Stage-1,
\* Paraphrase, Review, Aggregation, Chairman: the paraphrase backend is
\* called only when every Stage-1 invoker has ended, a reviewer only when
\* also every paraphrase call has been answered, the chairman only when also
\* every reviewer has ended; the timing keys are written in that order, and
\* the result of a completed run holds exactly the five keys stage1,
\* paraphrase, review, aggregation, chairman, in that order.
C1_StageOrder ==
    \A r \in Reqs :
        /\ Called(r, "GPT-J-6B") => Ended(run[r].tasks)
        /\ (\E m \in ReviewerModels : Called(r, m)) =>
              Ended(run[r].tasks) /\ ParaphraseEnded(r)
        /\ Called(r, "Gemini-1.5-Pro") =>
              Ended(run[r].tasks) /\ ParaphraseEnded(r) /\ Ended(run[r].rtasks)
        /\ IsPrefix(run[r].stage_timings, FiveStages)
        /\ (Returned(r) /\ ~FromCache(r)) =>
              run[r].outcome.value.metadata.stage_timings = FiveStages

\* A completed run in which two Stage-1 invokers, the paraphrase backend
\* twice, two reviewers and the chairman were all called.
C1_Witness ==
    \E r \in Reqs :
        /\ Returned(r)
        /\ \A b \in Backends : Called(r, b)
        /\ CallCount(r, "GPT-J-6B") = 2
        /\ run[r].outcome.value.metadata.stage_timings = FiveStages

(* -------------------------------- C2 ------------------------------------ *)
\* Every Stage-1 invoker of the run raised (or none was enabled).
NoOpinion(r) == \A i \in 1..Len(run[r].tasks) : run[r].tasks[i].resp.kind = "error"

\* C2: when Stage-1 yields no opinion, because no Stage-1 invoker is enabled
\* or every enabled one raises, run_pipeline raises PipelineError, neither
\* the paraphrase backend nor a reviewer nor the chairman is called, and
\* nothing is written to the cache.
C2_NoOpinion ==
    \A r \in Reqs :
        (Stage1Left(r) /\ NoOpinion(r)) =>
            /\ Raises(r)
            /\ run[r].outcome.type = "PipelineError"
            /\ \A k \in 1..Len(run[r].calls) : run[r].calls[k] \in Stage1Names
            /\ \A k \in 1..Len(run[r].cache_ops) : run[r].cache_ops[k] # "set"
            /\ store = <<>>

\* Both Stage-1 invokers were called and raised, the failed ones being
\* skipped, and the run has ended with the cache in use.
C2_Witness ==
    \E r \in Reqs :
        /\ run[r].pc = "done"
        /\ Len(run[r].tasks) = 2
        /\ NoOpinion(r)
        /\ Get(run[r].options, "skip_failed_models", TRUE)
        /\ run[r].cache_ops = <<"get">>
        /\ settings.enable_cache

(* -------------------------------- C3 ------------------------------------ *)
\* A Stage-1 invoker of the run produced an opinion / raised.
Stage1Succeeded(r) == \E i \in 1..Len(run[r].tasks) : run[r].tasks[i].result.kind = "value"
Stage1Raised(r) == \E i \in 1..Len(run[r].tasks) : run[r].tasks[i].result.kind = "exception"

\* A reviewer is enabled whose backend is reachable.
ReviewerAvailable ==
    \E name \in {"Reviewer_A", "Reviewer_B"} :
        ReviewerEnabled(name) /\ ReviewerModel(name) \notin down

\* C3 as stated: whenever at least one Stage-1 invoker succeeds and at least
\* one reviewer can succeed, the run completes without a PipelineError, for
\* every setting of the request options.
C3_Original ==
    \A r \in Reqs :
        (run[r].pc = "done" /\ ~FromCache(r) /\ Stage1Succeeded(r) /\ ReviewerAvailable)
            => Returned(r)

\* C3, amended: when at least one Stage-1 invoker succeeds and at least one
\* reviewer can succeed, the run completes without a PipelineError exactly
\* when skip_failed_models is true or no Stage-1 invoker raised; otherwise
\* it raises PipelineError before the paraphrase backend is called.
C3_PartialFailure ==
    \A r \in Reqs :
        (run[r].pc = "done" /\ ~FromCache(r) /\ Stage1Succeeded(r) /\ ReviewerAvailable)
            => /\ Returned(r) <=>
                    (Get(run[r].options, "skip_failed_models", TRUE) \/ ~Stage1Raised(r))
               /\ Raises(r) =>
                    run[r].outcome.type = "PipelineError" /\ ~Called(r, "GPT-J-6B")

\* A run that completed although one Stage-1 invoker raised and one
\* reviewer backend was unreachable.
C3_Witness ==
    \E r \in Reqs :
        /\ Returned(r)
        /\ Stage1Succeeded(r) /\ Stage1Raised(r)
        /\ ReviewerAvailable
        /\ \E i \in 1..Len(run[r].rtasks) : run[r].rtasks[i].resp.kind = "error"

(* -------------------------------- C4 ------------------------------------ *)
\* Every reviewer that ran produced a verdict without reviews.
ZeroReviews(r) ==
    \A i \in 1..Len(run[r].rtasks) : run[r].rtasks[i].result.value.reviews = <<>>

AllReviewersFailed(r) ==
    /\ Raises(r)
    /\ run[r].outcome.type = "PipelineError"
    /\ run[r].outcome.cause.msg = "All reviewers failed"
    /\ ~Called(r, "Gemini-1.5-Pro")

BothReviewers500(r) ==
    /\ Len(run[r].rtasks) = 2
    /\ \A i \in 1..2 : run[r].rtasks[i].resp = Failure("ModelAPIError")

ChairmanFailed(r) ==
    /\ Called(r, "Gemini-1.5-Pro")
    /\ \/ run[r].chairman.kind = "error"
       \/ /\ run[r].chairman.kind = "text"
          /\ \/ run[r].chairman.shape = "garbage"
             \/ "final_answer" \notin DOMAIN run[r].chairman.obj

\* C6: a failure of the final synthesis never fails the run: the result
\* carries the fallback final answer, built from the supported claims, with
\* confidence 0.5, and the run is counted in successful_queries and not in
\* failed_queries.
C6_SynthesisFailure ==
    \A r \in Reqs :
        (run[r].pc = "done" /\ ChairmanFailed(r)) =>
            /\ Returned(r)
            /\ LET fa == run[r].outcome.value.final_answer
                   supported == run[r].outcome.value.aggregation.supported_claims
               IN  /\ fa.confidence = 50
                   /\ fa.reasoning_summary = "Fallback synthesis due to chairman error."
                   /\ supported = <<>> =>
                        fa.final_answer =
                            <<"Unable to provide a confident answer due to insufficient verified claims.">>
                   /\ supported # <<>> =>
                        /\ Head(fa.final_answer) = "Based on verified claims:"
                        /\ Len(fa.final_answer) > 1
            /\ stats.successful_queries = 1
            /\ stats.failed_queries = 0

\* A completed run with a supported claim in which the chairman backend
\* raised.
C6_Witness ==
    \E r \in Reqs :
        /\ run[r].pc = "done"
        /\ run[r].chairman.kind = "error"
        /\ ChairmanFailed(r)
        /\ run[r].aggregation.supported_claims # <<>>
        /\ stats.successful_queries = 1

(* -------------------------------- C7 ------------------------------------ *)
\* The step is a run_pipeline call of request r that is answered from the
\* cache.
HitStep(r) ==
    /\ stats'.total_queries = stats.total_queries + 1
    /\ run'[r].pc = "done"
    /\ run'[r].outcome.kind = "value"

\* C7 as stated: on a cache hit run_pipeline returns the cached entry with
\* metadata.cache_hit = true and increments cache_hits by exactly one.
C7_Original ==
    [][\A r \in Reqs :
          HitStep(r) =>
              /\ run'[r].outcome.value.metadata.cache_hit = TRUE
              /\ stats'.cache_hits = stats.cache_hits + 1]_vars

(* -------------------------------- C8 ------------------------------------ *)
\* A result without metadata.cache_hit.
DropCacheHit(v) ==
    [v EXCEPT !.metadata = [k \in DOMAIN v.metadata \ {"cache_hit"} |-> v.metadata[k]]]

\* C8: with caching enabled, a second run with the same (query, options)
\* while the entry is fresh calls no backend, and its payload is the one the
\* run that wrote the entry handed back, apart from metadata.cache_hit.
C8_SecondRun ==
    [][\A r \in Reqs :
          HitStep(r) =>
              /\ run'[r].calls = <<>>
              /\ run'[r].tasks = <<>> /\ run'[r].rtasks = <<>>
              /\ GenerateKey(run'[r].query, run'[r].options) \in DOMAIN returned
              /\ DropCacheHit(run'[r].outcome.value) =
                    DropCacheHit(returned[GenerateKey(run'[r].query, run'[r].options)])]_vars

\* The second request, with the query and options of the first, has been
\* answered with the first request's result.
C8_Witness ==
    \E r \in Reqs :
        /\ FromCache(r)
        /\ run[r].request_id = 2
        /\ run[r].outcome.value.metadata.request_id = 1
        /\ run[r].outcome.value.query = run[r].query
        /\ run[r].calls = <<>>

(* -------------------------------- C9 ------------------------------------ *)
\* The step ends a run of request r with a write to the cache.
SetStep(r) ==
    /\ settings.enable_cache
    /\ run[r].pc # "done"
    /\ run'[r].pc = "done"
    /\ run'[r].cache_ops = <<"get", "set">>

\* C9: right after set(q, r, o), get(q2, o2) returns r exactly when q2
\* equals q up to letter case and surrounding whitespace and o2 equals o;
\* in particular an entry stored under other options is never returned.
C9_KeyNormalisation ==
    [][\A r \in Reqs :
          SetStep(r) =>
              \A q2 \in Queries, o2 \in OptionSets :
                  (StoreGet(store', GenerateKey(q2, o2)) = Hit(run'[r].outcome.value))
                      <=> /\ Lower(Strip(q2)) = Lower(Strip(run[r].query))
                          /\ o2 = run[r].options]_vars

\* A run with query "Ab" and non-empty options has written its result, and
\* get with the spelling " ab " and the same options returns it.
C9_Witness ==
    \E r \in Reqs :
        /\ Returned(r)
        /\ run[r].cache_ops = <<"get", "set">>
        /\ run[r].query = <<"A", "b">>
        /\ run[r].options # <<>>
        /\ CacheGet(<<" ", "a", "b", " ">>, run[r].options) = Hit(run[r].outcome.value)
        /\ ~CacheGet(<<"A", "b">>, <<>>).hit

(* -------------------------------- C10 ----------------------------------- *)
\* An entry for (q, o) was set less than cache_ttl ago and neither deleted
\* nor cleared since.
Fresh(q, o) ==
    /\ GenerateKey(q, o) \in DOMAIN store
    /\ now - store[GenerateKey(q, o)].value.metadata.cached_at < settings.cache_ttl

\* Every stored entry that the store still returns was set less than
\* cache_ttl ago.
FreshHits ==
    \A k \in DOMAIN store :
        StoreGet(store, k).hit => now - store[k].value.metadata.cached_at < settings.cache_ttl

\* C10: get returns an entry only while less than the TTL has elapsed since
\* it was set; once a key is deleted or the cache cleared, get returns
\* nothing for it; and a run_pipeline call that finds no fresh entry for its
\* key (expired, deleted, cleared or never set) executes the stages again.
C10_Expiry ==
    [][/\ FreshHits /\ FreshHits'
       /\ \A k \in DOMAIN store \ DOMAIN store' : ~StoreGet(store', k).hit
       /\ \A r \in Reqs :
             (/\ stats'.total_queries = stats.total_queries + 1
              /\ ~Fresh(run'[r].query, run'[r].options))
                 => /\ run'[r].pc = "stage1"
                    /\ run'[r].calls # <<>>
                    /\ stats'.cache_hits = stats.cache_hits]_vars

\* A run executes Stage-1 again although the cache still holds the entry for
\* its key, which has expired.
C10_Witness ==
    \E r \in Reqs :
        /\ run[r].pc = "stage1"
        /\ Get(run[r].options, "use_cache", TRUE)
        /\ settings.enable_cache
        /\ GenerateKey(run[r].query, run[r].options) \in DOMAIN store
        /\ ~Fresh(run[r].query, run[r].options)

(* -------------------------------- C11 ----------------------------------- *)
\* Requests one after the other while backends fail and recover between
\* them: one query, asked with no options, with caching declined, and
\* with failed models not skipped.
OutageOptions == {<<>>, [use_cache |-> FALSE], [skip_failed_models |-> FALSE]}
Outages == {{}, {"Llama-7B"}, {"Llama-7B", "GPT-OSS-20B"}, {"Gemini-1.5-Pro"}}

\* The reachability of the backends changes.
Outage(d) ==
    /\ d # down
    /\ down' = d
    /\ UNCHANGED <<settings, now, store, stats, run, returned, faulty, admin, health>>

InitOutage ==
    /\ settings \in {DefaultSettings, [DefaultSettings EXCEPT !.enable_cache = FALSE]}
    /\ now = 0
    /\ store = <<>>
    /\ stats = InitStats
    /\ run = [r \in Reqs |-> IdleRun]
    /\ returned = <<>>
    /\ down = {}
    /\ faulty = FALSE
    /\ admin = NoResult
    /\ health = IdleHealth

NextOutage ==
    \/ \E r \in Reqs, o \in OutageOptions :
          /\ NoneInFlight
          /\ stats.total_queries < MaxRuns
          /\ RunPipeline(r, <<"A", "b">>, o, stats.total_queries + 1)
    \/ \E r \in Reqs, i \in 1..2 :
          /\ i <= Len(run[r].tasks)
          /\ \E resp \in Answers(run[r].tasks[i].name, Stage1Failures, GoodStage1) :
                Stage1Return(r, i, resp)
    \/ \E r \in Reqs : Stage1Collect(r)
    \/ \E r \in Reqs, resp \in GoodParaphrase : ParaphraseReturn(r, resp)
    \/ \E r \in Reqs, i \in 1..2 :
          \E resp \in GoodReviews(run[r].claims) : ReviewReturn(r, i, resp)
    \/ \E r \in Reqs : ReviewCollect(r)
    \/ \E r \in Reqs, resp \in Answers("Gemini-1.5-Pro", ServiceFailures, GoodChairman) :
          ChairmanReturn(r, resp)
    \/ \E d \in Outages : NoneInFlight /\ Outage(d)

OutageSpec == InitOutage /\ [][NextOutage]_vars

\* The request option as the caller passed it.
CacheWanted(o) == Get(o, "use_cache", TRUE)

\* The step ends the run of request r with a result computed by the five
\* stages / with an error.
CompletesStep(r) ==
    /\ run[r].pc \notin {"idle", "done"}
    /\ run'[r].pc = "done"
    /\ run'[r].outcome.kind = "value"
    /\ run'[r].stage_timings = FiveStages
FailsStep(r) ==
    /\ run[r].pc \notin {"idle", "done"}
    /\ run'[r].pc = "done"
    /\ run'[r].outcome.kind = "raise"

\* C11: the cache is written exactly when a run completes all five stages
\* with options.use_cache true: such a run calls the cache's set once, as
\* its last cache operation, and (the cache being enabled) leaves its
\* result in the store under the key of its query and options; every other
\* step, in particular one that ends a run with an error and every step of
\* a run with use_cache false, leaves the store unchanged; and a run with
\* use_cache false performs no cache operation at all, neither get nor set.
C11_WriteOnSuccess ==
    [][\A r \in Reqs :
          /\ store' # store =>
                \E w \in Reqs : CompletesStep(w) /\ CacheWanted(run[w].options)
          /\ CompletesStep(r) /\ CacheWanted(run[r].options) =>
                /\ run'[r].cache_ops = <<"get", "set">>
                /\ settings.enable_cache =>
                      /\ GenerateKey(run[r].query, run[r].options) \in DOMAIN store'
                      /\ store'[GenerateKey(run[r].query, run[r].options)].value
                            = run'[r].outcome.value
          /\ FailsStep(r) => store' = store /\ "set" \notin {run'[r].cache_ops[k] : k \in 1..Len(run'[r].cache_ops)}
          /\ ~CacheWanted(run'[r].options) => run'[r].cache_ops = <<>> /\ store' = store
      ]_vars

\* A run fails while the store holds the entry of an earlier run; a run
\* that declined caching completes while the store holds one.
C11_Witness == \E r \in Reqs : Raises(r) /\ store # <<>>
C11_DeclinedRun ==
    \E r \in Reqs :
        /\ Returned(r)
        /\ ~CacheWanted(run[r].options)
        /\ run[r].stage_timings = FiveStages
        /\ store # <<>>

(* -------------------------------- C12 ----------------------------------- *)
\* The disk store starts or stops raising.
DiskFault ==
    /\ faulty' = ~faulty
    /\ UNCHANGED <<settings, now, store, stats, run, returned, down, admin, health>>

FaultOptions == {<<>>, [use_cache |-> TRUE, timeout |-> 30]}

InitFault ==
    /\ settings = DefaultSettings
    /\ now = 0
    /\ store = <<>>
    /\ stats = InitStats
    /\ run = [r \in Reqs |-> IdleRun]
    /\ returned = <<>>
    /\ down = {}
    /\ faulty \in BOOLEAN
    /\ admin = NoResult
    /\ health = IdleHealth

\* Requests one after the other against backends that answer and a disk
\* store that fails at any moment; between requests the cache is cleared
\* through the route or an entry is deleted.
NextFault ==
    \/ \E r \in Reqs, o \in FaultOptions :
          /\ NoneInFlight
          /\ stats.total_queries < MaxRuns
          /\ RunPipeline(r, <<"A", "b">>, o, stats.total_queries + 1)
    \/ \E r \in Reqs, i \in 1..2, resp \in GoodStage1 : Stage1Return(r, i, resp)
    \/ \E r \in Reqs : Stage1Collect(r)
    \/ \E r \in Reqs, resp \in GoodParaphrase : ParaphraseReturn(r, resp)
    \/ \E r \in Reqs, i \in 1..2 :
          \E resp \in GoodReviews(run[r].claims) : ReviewReturn(r, i, resp)
    \/ \E r \in Reqs : ReviewCollect(r)
    \/ \E r \in Reqs, resp \in GoodChairman : ChairmanReturn(r, resp)
    \/ NoneInFlight /\ ClearCacheRoute
    \/ \E o \in FaultOptions : NoneInFlight /\ CacheDelete(<<"A", "b">>, o)
    \/ DiskFault

FaultSpec == InitFault /\ [][NextFault]_vars

\* While the store raises: a run that reads the cache goes on to Stage-1
\* as on a miss, no run ends with an error, and no step changes the store.
StoreErrorsSwallowed ==
    faulty =>
        /\ store' = store
        /\ \A r \in Reqs :
              /\ ~FailsStep(r)
              /\ run[r].pc \in {"idle", "done"} /\ run'[r] # run[r] => run'[r].pc = "stage1"

\* C12 (as stated): no error raised by the underlying store during get,
\* set, delete or clear reaches the caller: a failing get is a miss, a
\* failing set, delete or clear is a no-op, and the call returns normally.
C12_Original ==
    [][StoreErrorsSwallowed /\ (faulty => admin'.kind # "raise")]_vars

\* The part that the code keeps: errors of the store during get, set and
\* delete are swallowed (get is a miss, set and delete are no-ops).
C12_GetSetDelete == [][StoreErrorsSwallowed]_vars

\* A clear through the route has failed with HTTP 500 on a store error.
C12_ClearRaised == admin.kind = "raise" /\ admin.status = 500

(* -------------------------------- C13 ----------------------------------- *)
\* The status the host reports for a failed request: process_query hands
\* the exception that run_pipeline raised to handle_pipeline_error.
ReportedStatus(r) == handle_pipeline_error(run[r].outcome.type)

\* C13 (as stated): the status of a failed request follows the kind of
\* failure that caused it: 504 for a backend timeout, 502 for a transport
\* or HTTP-status failure, 422 for a validation failure, 400 for bad input,
\* 500 for anything else.
C13_Original ==
    \A r \in Reqs :
        Raises(r) => ReportedStatus(r) = handle_pipeline_error(run[r].outcome.cause.type)

\* A request has failed because a Stage-1 backend timed out, and the host
\* reports 500.
C13_Timeout500 ==
    \E r \in Reqs :
        /\ Raises(r)
        /\ run[r].outcome.cause.type = "ModelTimeoutError"
        /\ ReportedStatus(r) = 500

(* ---------------------------- aggregation ------------------------------- *)
\* The claims handed to the aggregation: none; two claims of different
\* texts; two claims of two Stage-1 models that share their canonical text.
ClaimA == Claim("Llama-7B", 0, <<ParisSentence>>, <<"Paris is the capital of France.">>)
ClaimB == Claim("GPT-OSS-20B", 0, <<ParisSentence>>, <<"France is in Europe.">>)
ClaimBSame == Claim("GPT-OSS-20B", 0, <<ParisSentence>>, <<"Paris is the capital of France.">>)
AggClaims == {<<>>, <<ClaimA, ClaimB>>, <<ClaimA, ClaimBSame>>}

\* The reviews a reviewer may write: of either claim, or of a claim id
\* that no claim carries.
UnknownId == ClaimId("Llama-7B", 7)
AggReviews ==
    {FormatReview(ReviewOut(ClaimA.claim_id, v)) : v \in {"correct", "incorrect", "uncertain"}}
    \cup {FormatReview(ReviewOut(ClaimB.claim_id, "correct")),
          FormatReview(ReviewOut(UnknownId, "correct"))}

\* The verdict dict of a reviewer with the given reviews.
AggVerdict(reviewer_name, reviews) ==
    [reviewer_name |-> reviewer_name, reviews |-> reviews,
     metadata |-> [total_reviewed |-> Len(reviews), model |-> ReviewerModel(reviewer_name)]]

\* The verdict lists of two reviewers who write at most max reviews.
AggVerdicts(max) ==
    UNION {{<<AggVerdict("Reviewer_A", SubSeq(s, 1, k)),
              AggVerdict("Reviewer_B", SubSeq(s, k + 1, Len(s)))>> : k \in 0..Len(s)} :
           s \in UNION {[1..n -> AggReviews] : n \in 0..max}}

\* _run_aggregation
RunAggregation(r) ==
    /\ run[r].pc = "aggregation"
    /\ run' = [run EXCEPT ![r].pc = "aggregated",
                          ![r].aggregation = Aggregate(run[r].claims, run[r].verdicts)]
    /\ UNCHANGED <<settings, now, store, stats, returned, down, faulty, admin, health>>

\* The aggregation as a function of its inputs: a run stands before
\* _run_aggregation with any of the claim lists and verdict lists.
InitAgg ==
    /\ settings = DefaultSettings
    /\ now = 0
    /\ store = <<>>
    /\ stats = InitStats
    /\ \E vs \in AggVerdicts(MaxReviews), cs \in AggClaims :
          run = [r \in Reqs |-> [IdleRun EXCEPT !.pc = "aggregation", !.claims = cs, !.verdicts = vs]]
    /\ returned = <<>>
    /\ down = {}
    /\ faulty = FALSE
    /\ admin = NoResult
    /\ health = IdleHealth

NextAgg == \E r \in Reqs : RunAggregation(r)

AggSpec == InitAgg /\ [][NextAgg]_vars

Aggregated(r) == run[r].pc = "aggregated"

\* The reviewers (positions in the verdict list) that reviewed a claim id,
\* and the verdicts they gave on it.
Reviewing(vs, id) ==
    {i \in 1..Len(vs) : \E k \in 1..Len(vs[i].reviews) : vs[i].reviews[k].claim_id = id}
VerdictsOn(vs, id) ==
    UNION {{vs[i].reviews[k].verdict :
               k \in {n \in 1..Len(vs[i].reviews) : vs[i].reviews[n].claim_id = id}} :
           i \in 1..Len(vs)}

\* The four buckets of an aggregation and the occurrences of a text in them.
Buckets(a) == <<a.supported_claims, a.rejected_claims, a.disputed_claims, a.uncertain_claims>>
Occurrences(bucket, t) == Cardinality({k \in 1..Len(bucket) : bucket[k] = t})
Entries(bucket) == {bucket[k] : k \in 1..Len(bucket)}

\* The claims of a list that are reviewed by at least one reviewer and have
\* the canonical text t.
ReviewedWithText(cs, vs, t) ==
    {j \in 1..Len(cs) : cs[j].canonical_text = t /\ Reviewing(vs, cs[j].claim_id) # {}}

(* -------------------------------- C14 ----------------------------------- *)
\* C14: every claim that at least one reviewer reviewed is entered in
\* exactly one of the four buckets, once, and a claim with no review is
\* entered in none: every bucket entry is the canonical text of a claim,
\* and each canonical text occurs in the four buckets together as often as
\* there are reviewed claims with that text -- once, in one bucket, for a
\* reviewed claim whose text is its own; never for an unreviewed one.
C14_Completeness ==
    \A r \in Reqs :
        Aggregated(r) =>
            LET cs == run[r].claims
                vs == run[r].verdicts
                b == Buckets(run[r].aggregation)
            IN  /\ \A n \in 1..4 : \A t \in Entries(b[n]) :
                      \E j \in 1..Len(cs) : cs[j].canonical_text = t
                /\ \A j \in 1..Len(cs) :
                      Occurrences(b[1], cs[j].canonical_text)
                        + Occurrences(b[2], cs[j].canonical_text)
                        + Occurrences(b[3], cs[j].canonical_text)
                        + Occurrences(b[4], cs[j].canonical_text)
                      = Cardinality(ReviewedWithText(cs, vs, cs[j].canonical_text))

\* Of two claims with different texts the first is reviewed by both
\* reviewers, who disagree, and the second by nobody: the first is the one
\* entry of the disputed bucket and the other buckets are empty.
C14_Witness ==
    \E r \in Reqs :
        /\ Aggregated(r)
        /\ run[r].claims = <<ClaimA, ClaimB>>
        /\ Cardinality(Reviewing(run[r].verdicts, ClaimA.claim_id)) = 2
        /\ Reviewing(run[r].verdicts, ClaimB.claim_id) = {}
        /\ Buckets(run[r].aggregation) = <<<<>>, <<>>, <<ClaimA.canonical_text>>, <<>>>>

(* -------------------------------- C15 ----------------------------------- *)
\* C15 (as stated): in every aggregation output the four buckets are
\* disjoint: no entry occurs in more than one of supported, rejected,
\* disputed and uncertain, whatever the claims (claims that share a
\* canonical text included) and the verdicts.
C15_Original ==
    \A r \in Reqs :
        Aggregated(r) =>
            \A m, n \in 1..4 :
                m # n => Entries(Buckets(run[r].aggregation)[m])
                           \cap Entries(Buckets(run[r].aggregation)[n]) = {}

\* Two claims share their canonical text; one is rejected, the other
\* supported, and the text is an entry of both buckets.
C15_SharedText ==
    \E r \in Reqs :
        /\ Aggregated(r)
        /\ run[r].claims = <<ClaimA, ClaimBSame>>
        /\ run[r].aggregation.rejected_claims = <<ClaimA.canonical_text>>
        /\ run[r].aggregation.supported_claims = <<ClaimA.canonical_text>>

\* With claims of pairwise different canonical texts the buckets are
\* disjoint.
C15_DistinctTexts ==
    \A r \in Reqs :
        (/\ Aggregated(r)
         /\ \A i, j \in 1..Len(run[r].claims) :
               i # j => run[r].claims[i].canonical_text # run[r].claims[j].canonical_text)
        => \A m, n \in 1..4 :
              m # n => Entries(Buckets(run[r].aggregation)[m])
                         \cap Entries(Buckets(run[r].aggregation)[n]) = {}

(* -------------------------------- C16 ----------------------------------- *)
\* The claims of a list that two or more reviewers reviewed, and those of
\* them on which every verdict given is the same.
MultiReviewed(cs, vs) ==
    {j \in 1..Len(cs) : Cardinality(Reviewing(vs, cs[j].claim_id)) >= 2}
Unanimous(cs, vs) ==
    {j \in MultiReviewed(cs, vs) : Cardinality(VerdictsOn(vs, cs[j].claim_id)) = 1}

\* score (in thousandths) is x / y rounded to three decimals.
IsRounded(score, x, y) ==
    /\ 2 * (1000 * x - score * y) <= y
    /\ 2 * (score * y - 1000 * x) <= y

\* C16 (as stated): when at least one claim is reviewed by two or more
\* reviewers, consensus_score is unanimous / counted (to three decimals),
\* counted being the number of claims reviewed by at least two reviewers
\* and unanimous the number of those on which all reviewers gave the same
\* verdict; so the score lies in [0,1] and is 1.0 exactly when every
\* multi-reviewer claim is unanimous.
C16_Original ==
    \A r \in Reqs :
        (Aggregated(r) /\ MultiReviewed(run[r].claims, run[r].verdicts) # {}) =>
            LET counted == Cardinality(MultiReviewed(run[r].claims, run[r].verdicts))
                unanimous == Cardinality(Unanimous(run[r].claims, run[r].verdicts))
                score == run[r].aggregation.consensus_score
            IN  /\ IsRounded(score, unanimous, counted)
                /\ score \in 0..1000
                /\ score = 1000 <=> unanimous = counted

\* The two reviewers disagree on the one claim that both reviewed, they
\* agree on a claim id that no claim carries, and the score is 0.5.
C16_UnknownIdCounted ==
    \E r \in Reqs :
        /\ Aggregated(r)
        /\ run[r].claims = <<ClaimA, ClaimB>>
        /\ MultiReviewed(run[r].claims, run[r].verdicts) = {1}
        /\ Unanimous(run[r].claims, run[r].verdicts) = {}
        /\ Cardinality(Reviewing(run[r].verdicts, UnknownId)) = 2
        /\ run[r].aggregation.consensus_score = 500

\* All reviews name claims of the list and no reviewer reviews a claim
\* twice.
PlainReviews(cs, vs) ==
    \A i \in 1..Len(vs) : \A k \in 1..Len(vs[i].reviews) :
        /\ \E j \in 1..Len(cs) : cs[j].claim_id = vs[i].reviews[k].claim_id
        /\ \A n \in 1..Len(vs[i].reviews) :
              vs[i].reviews[n].claim_id = vs[i].reviews[k].claim_id => n = k

\* With such reviews the score is as C16 states.
C16_PlainReviews ==
    \A r \in Reqs :
        (/\ Aggregated(r)
         /\ PlainReviews(run[r].claims, run[r].verdicts)
         /\ MultiReviewed(run[r].claims, run[r].verdicts) # {}) =>
            LET counted == Cardinality(MultiReviewed(run[r].claims, run[r].verdicts))
                unanimous == Cardinality(Unanimous(run[r].claims, run[r].verdicts))
                score == run[r].aggregation.consensus_score
            IN  /\ IsRounded(score, unanimous, counted)
                /\ score \in 0..1000
                /\ score = 1000 <=> unanimous = counted

(* -------------------------------- C17 ----------------------------------- *)
\* C17 (as stated): consensus_score is 0.5 whenever no claim has two or
\* more reviewers.
C17_Original ==
    \A r \in Reqs :
        (Aggregated(r) /\ MultiReviewed(run[r].claims, run[r].verdicts) = {}) =>
            run[r].aggregation.consensus_score = 500

\* One claim is reviewed, by one reviewer; both reviewers also review a
\* claim id that no claim carries, and the score is 1.0.
C17_UnknownIdCounted ==
    \E r \in Reqs :
        /\ Aggregated(r)
        /\ run[r].claims = <<ClaimA, ClaimB>>
        /\ Cardinality(Reviewing(run[r].verdicts, ClaimA.claim_id)) = 1
        /\ MultiReviewed(run[r].claims, run[r].verdicts) = {}
        /\ run[r].aggregation.consensus_score = 1000

\* Nothing is reviewed at all, and the score is 0.0.
C17_NothingReviewed ==
    \E r \in Reqs :
        /\ Aggregated(r)
        /\ run[r].claims = <<ClaimA, ClaimB>>
        /\ AllReviews(run[r].verdicts) = <<>>
        /\ run[r].aggregation.consensus_score = 0

\* With reviews as in PlainReviews: the score is 0.5 when some claim is
\* reviewed and none by two reviewers, and 0.0 when nothing is reviewed.
C17_PlainReviews ==
    \A r \in Reqs :
        (/\ Aggregated(r)
         /\ PlainReviews(run[r].claims, run[r].verdicts)
         /\ MultiReviewed(run[r].claims, run[r].verdicts) = {}) =>
            run[r].aggregation.consensus_score
                = IF AllReviews(run[r].verdicts) = <<>> THEN 0 ELSE 500

(* -------------------------------- C18 ----------------------------------- *)
\* The invokers of a stage that raised / that returned, by position, and
\* what the latter returned, in order.
RaisedAt(tasks) == {i \in 1..Len(tasks) : tasks[i].result.kind = "exception"}
ReturnedBy(tasks) ==
    [k \in 1..Len(SelectSeq(tasks, LAMBDA t : t.result.kind = "value")) |->
        SelectSeq(tasks, LAMBDA t : t.result.kind = "value")[k].result.value]
SkipFailed(r) == Get(run[r].options, "skip_failed_models", TRUE)

\* The stage of request r with these invokers and these results went on /
\* ended the request with error e.
StageWentOn(r, key, results, kept) ==
    /\ \E k \in 1..Len(run[r].stage_timings) : run[r].stage_timings[k] = key
    /\ results = kept
StageFailed(r, key, e) ==
    /\ Raises(r)
    /\ run[r].outcome.cause = e
    /\ \A k \in 1..Len(run[r].stage_timings) : run[r].stage_timings[k] # key

C18_FailsDespiteSuccess ==
    \E r \in Reqs :
        /\ ~SkipFailed(r)
        /\ RaisedAt(run[r].tasks) = {2}
        /\ ReturnedBy(run[r].tasks) # <<>>
        /\ Raises(r)

\* With skip_failed_models true one Stage-1 invoker raised and the stage
\* went on with the opinion of the other.
C18_Dropped ==
    \E r \in Reqs :
        /\ SkipFailed(r)
        /\ RaisedAt(run[r].tasks) = {1}
        /\ Len(run[r].opinions) = 1
        /\ StageWentOn(r, "stage1", run[r].opinions, ReturnedBy(run[r].tasks))

(* -------------------------------- C19 ----------------------------------- *)
\* Requests that carry a timeout of one or two ticks.
DeadlineOptions ==
    {[timeout |-> 1], [timeout |-> 2], [timeout |-> 1, enable_parallel |-> FALSE]}

InitDeadline ==
    /\ settings = DefaultSettings
    /\ now = 0
    /\ store = <<>>
    /\ stats = InitStats
    /\ run = [r \in Reqs |-> IdleRun]
    /\ returned = <<>>
    /\ down = {}
    /\ faulty = FALSE
    /\ admin = NoResult
    /\ health = IdleHealth

\* One request, issued at time 0, against backends that answer after any
\* delay: the clock advances while their answers are awaited.  (The HTTP
\* clients time out after settings.local_model_timeout and
\* settings.request_timeout, which lie beyond the horizon; the Gemini call
\* has no timeout.)
NextDeadline ==
    \/ \E r \in Reqs, o \in DeadlineOptions :
          /\ run[r].pc = "idle"
          /\ now = 0
          /\ RunPipeline(r, <<"A", "b">>, o, 1)
    \/ \E r \in Reqs, i \in 1..2, resp \in GoodStage1 : Stage1Return(r, i, resp)
    \/ \E r \in Reqs : Stage1Collect(r)
    \/ \E r \in Reqs, resp \in GoodParaphrase : ParaphraseReturn(r, resp)
    \/ \E r \in Reqs, i \in 1..2 :
          \E resp \in GoodReviews(run[r].claims) : ReviewReturn(r, i, resp)
    \/ \E r \in Reqs : ReviewCollect(r)
    \/ \E r \in Reqs, resp \in GoodChairman : ChairmanReturn(r, resp)
    \/ Tick

DeadlineSpec == InitDeadline /\ [][NextDeadline]_vars

\* The run of request r awaits a backend.
Awaiting(r) == run[r].pc \in {"stage1", "paraphrase", "review", "chairman"}

\* C19 (as stated): every backend call is bounded by the single deadline
\* of its request, derived from options.timeout: a request (issued at time
\* 0) never waits on a backend past its timeout, and one that ended after
\* the deadline ended with an error, not with a result.
C19_Original ==
    [][\A r \in Reqs :
          /\ Awaiting(r)' => now' <= run'[r].options.timeout
          /\ CompletesStep(r) => now <= run[r].options.timeout
      ]_vars

\* A request with timeout 1 still awaits its Stage-1 backends at time 2.
C19_PastDeadline ==
    \E r \in Reqs :
        /\ run[r].pc = "stage1"
        /\ run[r].options.timeout = 1
        /\ now = 2
        /\ \E i \in 1..Len(run[r].tasks) : run[r].tasks[i].status = "running"

(* -------------------------------- C20 ----------------------------------- *)
\* Two request slots: the host awaits run_pipeline for two requests at a
\* time, and their steps interleave at the awaits.
Slots == {1, 2}
ConcOptions == {<<>>, [skip_failed_models |-> FALSE]}

InitConc ==
    /\ settings = DefaultSettings
    /\ now = 0
    /\ store = <<>>
    /\ stats = InitStats
    /\ run = [r \in Slots |-> IdleRun]
    /\ returned = <<>>
    /\ down \in {{}, {"Llama-7B"}}
    /\ faulty = FALSE
    /\ admin = NoResult
    /\ health = IdleHealth

NextConc ==
    \/ \E r \in Slots, o \in ConcOptions :
          /\ stats.total_queries < MaxRuns
          /\ RunPipeline(r, <<"A", "b">>, o, stats.total_queries + 1)
    \/ \E r \in Slots, i \in 1..2 :
          /\ i <= Len(run[r].tasks)
          /\ \E resp \in Answers(run[r].tasks[i].name, {Failure("ModelTimeoutError")}, GoodStage1) :
                Stage1Return(r, i, resp)
    \/ \E r \in Slots : Stage1Collect(r)
    \/ \E r \in Slots, resp \in GoodParaphrase : ParaphraseReturn(r, resp)
    \/ \E r \in Slots, i \in 1..2 :
          \E resp \in GoodReviews(run[r].claims) : ReviewReturn(r, i, resp)
    \/ \E r \in Slots : ReviewCollect(r)
    \/ \E r \in Slots, resp \in GoodChairman : ChairmanReturn(r, resp)

ConcSpec == InitConc /\ [][NextConc]_vars

\* No call of run_pipeline is in flight.
Quiescent == \A r \in DOMAIN run : run[r].pc \in {"idle", "done"}
InFlight == {r \in DOMAIN run : run[r].pc \notin {"idle", "done"}}

\* C20: over any sequence of run_pipeline calls, interleaved or not, no
\* statistics counter ever decreases, and whenever no call is in flight
\* total_queries = successful_queries + failed_queries + cache_hits (while
\* calls are in flight, total_queries exceeds that sum by their number).
C20_Statistics ==
    [][/\ \A k \in DOMAIN stats : stats'[k] >= stats[k]
       /\ stats'.total_queries
            = stats'.successful_queries + stats'.failed_queries + stats'.cache_hits
              + Cardinality(InFlight')
       /\ Quiescent' =>
            stats'.total_queries
              = stats'.successful_queries + stats'.failed_queries + stats'.cache_hits
      ]_vars

\* Two calls are in flight at once, the second one started while the first
\* was awaiting the chairman.
C20_Witness ==
    /\ run[1].pc = "chairman"
    /\ run[2].pc = "stage1"
    /\ stats.total_queries = 2

\* No call is in flight after one call succeeded and one failed.
C20_Settled ==
    /\ Quiescent
    /\ stats.successful_queries = 1
    /\ stats.failed_queries = 1
    /\ stats.total_queries = 2

(* -------------------------------- C21 ----------------------------------- *)
InitHealth ==
    /\ settings = DefaultSettings
    /\ now = 0
    /\ store = <<>>
    /\ stats = InitStats
    /\ run = [r \in Reqs |-> IdleRun]
    /\ returned = <<>>
    /\ down = {}
    /\ faulty = FALSE
    /\ admin = NoResult
    /\ health = IdleHealth

\* Health checks one after the other, the probes ending in any order and
\* in any way.
NextHealth ==
    \/ CheckHealth
    \/ \E name \in ProbeSet, result \in ProbeResults : ProbeReturn(name, result)
    \/ HealthCollect

HealthSpec == InitHealth /\ [][NextHealth]_vars

\* The probes that answered online: health_check returned True.
Online == {n \in ProbeSet : health.probes[n] = "true"}

\* C21: check_health reports healthy exactly when every probed backend is
\* online, degraded when not all but at least half of them are, and
\* unhealthy otherwise; a probe that raises is reported offline, and
\* check_health returns its report whatever the probes do.
C21_HealthRollup ==
    /\ health.pc = "done" =>
          /\ health.report.kind = "value"
          /\ health.report.value.status =
                IF Online = ProbeSet THEN "healthy"
                ELSE IF 2 * Cardinality(Online) >= Cardinality(ProbeSet) THEN "degraded"
                ELSE "unhealthy"
          /\ \A n \in ProbeSet :
                /\ health.report.value.models[n] = "online" <=> n \in Online
                /\ health.report.value.models[n] = "offline" <=> n \notin Online
    /\ (health.pc = "probing" /\ \A n \in ProbeSet : health.probes[n] # "running")
          => ENABLED HealthCollect

\* Exactly half of the probes are online, one of the others raised, and
\* the report says degraded.
C21_Witness ==
    /\ health.pc = "done"
    /\ Cardinality(Online) = 3
    /\ \E n \in ProbeSet : health.probes[n] = "raise"
    /\ health.report.value.status = "degraded"

(* -------------------------------- C22 ----------------------------------- *)
\* The places (reviewer, position) of the reviews of a claim id, and how
\* many of them carry the verdict v.
ReviewPlaces(vs, id) ==
    UNION {{<<i, k>> : k \in {n \in 1..Len(vs[i].reviews) : vs[i].reviews[n].claim_id = id}} :
           i \in 1..Len(vs)}
VerdictCount(vs, id, v) ==
    Cardinality({p \in ReviewPlaces(vs, id) : vs[p[1]].reviews[p[2]].verdict = v})

\* The bucket that the rule of C22 names for a claim id with reviews.
RuleBucket(vs, id) ==
    LET total == Cardinality(ReviewPlaces(vs, id))
        c == VerdictCount(vs, id, "CORRECT")
        i == VerdictCount(vs, id, "INCORRECT")
        u == VerdictCount(vs, id, "UNCERTAIN")
    IN  IF c = total THEN 1
        ELSE IF i = total THEN 2
        ELSE IF u = total THEN 4
        ELSE IF c > i /\ c > u THEN 1
        ELSE IF i > c /\ i > u THEN 2
        ELSE 3

\* C22: a claim with at least one review is entered in the bucket chosen
\* by this rule, applied in order: supported if all its reviews are
\* CORRECT; else rejected if all are INCORRECT; else uncertain if all are
\* UNCERTAIN; else supported if CORRECT strictly outnumbers both INCORRECT
\* and UNCERTAIN; else rejected if INCORRECT strictly outnumbers both
\* others; else disputed.  (With claims of different texts the claim's
\* text is in that bucket and in no other.)
C22_BucketRule ==
    \A r \in Reqs :
        Aggregated(r) =>
            \A j \in 1..Len(run[r].claims) :
                ReviewPlaces(run[r].verdicts, run[r].claims[j].claim_id) # {} =>
                    /\ run[r].claims[j].canonical_text \in
                          Entries(Buckets(run[r].aggregation)
                                    [RuleBucket(run[r].verdicts, run[r].claims[j].claim_id)])
                    /\ run[r].claims = <<ClaimA, ClaimB>> =>
                          \A n \in 1..4 :
                              n # RuleBucket(run[r].verdicts, run[r].claims[j].claim_id) =>
                                  run[r].claims[j].canonical_text
                                      \notin Entries(Buckets(run[r].aggregation)[n])

\* A claim has two CORRECT reviews, one INCORRECT and one UNCERTAIN, and
\* is supported by the strict majority rule.
C22_Witness ==
    \E r \in Reqs :
        /\ Aggregated(r)
        /\ run[r].claims = <<ClaimA, ClaimB>>
        /\ VerdictCount(run[r].verdicts, ClaimA.claim_id, "CORRECT") = 2
        /\ VerdictCount(run[r].verdicts, ClaimA.claim_id, "INCORRECT") = 1
        /\ VerdictCount(run[r].verdicts, ClaimA.claim_id, "UNCERTAIN") = 1
        /\ run[r].aggregation.supported_claims = <<ClaimA.canonical_text>>

\* A claim has one CORRECT and one INCORRECT review and is disputed.
C22_Tie ==
    \E r \in Reqs :
        /\ Aggregated(r)
        /\ run[r].claims = <<ClaimA, ClaimB>>
        /\ VerdictCount(run[r].verdicts, ClaimA.claim_id, "CORRECT") = 1
        /\ VerdictCount(run[r].verdicts, ClaimA.claim_id, "INCORRECT") = 1
        /\ Cardinality(ReviewPlaces(run[r].verdicts, ClaimA.claim_id)) = 2
        /\ run[r].aggregation.disputed_claims = <<ClaimA.canonical_text>>

(* -------------------------------- C23 ----------------------------------- *)
\* The verdict lists without the reviews whose claim id no claim carries.
KnownOnly(cs, vs) ==
    [i \in 1..Len(vs) |->
        [vs[i] EXCEPT !.reviews =
            SelectSeq(@, LAMBDA rv : \E j \in 1..Len(cs) : cs[j].claim_id = rv.claim_id)]]
HasUnknown(cs, vs) == KnownOnly(cs, vs) # vs

\* C23: reviews whose claim id is not in the claim list change nothing in
\* the aggregation: the four buckets, evidence_needed_count and
\* consensus_score are what they are without those reviews.
C23_Original ==
    \A r \in Reqs :
        Aggregated(r) =>
            LET plain == Aggregate(run[r].claims, KnownOnly(run[r].claims, run[r].verdicts))
            IN  /\ Buckets(run[r].aggregation) = Buckets(plain)
                /\ run[r].aggregation.evidence_needed_count = plain.evidence_needed_count
                /\ run[r].aggregation.consensus_score = plain.consensus_score

\* The buckets and evidence_needed_count are those of the aggregation
\* without the reviews of unknown claim ids.
C23_BucketsUnchanged ==
    \A r \in Reqs :
        Aggregated(r) =>
            LET plain == Aggregate(run[r].claims, KnownOnly(run[r].claims, run[r].verdicts))
            IN  /\ Buckets(run[r].aggregation) = Buckets(plain)
                /\ run[r].aggregation.evidence_needed_count = plain.evidence_needed_count

\* One review of a known claim and two reviews of an unknown id: the score
\* is 1.0, and 0.5 without the unknown reviews.
C23_ScoreChanged ==
    \E r \in Reqs :
        /\ Aggregated(r)
        /\ run[r].claims = <<ClaimA, ClaimB>>
        /\ Cardinality(ReviewPlaces(run[r].verdicts, ClaimA.claim_id)) = 1
        /\ Cardinality(ReviewPlaces(run[r].verdicts, ClaimB.claim_id)) = 0
        /\ Cardinality(ReviewPlaces(run[r].verdicts, UnknownId)) = 2
        /\ run[r].aggregation.consensus_score = 1000
        /\ Aggregate(run[r].claims,
                     KnownOnly(run[r].claims, run[r].verdicts)).consensus_score = 500

\* Unknown reviews are present and the buckets hold an entry.
C23_UnknownPresent ==
    \E r \in Reqs :
        /\ Aggregated(r)
        /\ HasUnknown(run[r].claims, run[r].verdicts)
        /\ run[r].aggregation.supported_claims # <<>>

(* -------------------------------- C24 ----------------------------------- *)
\* Place p comes before place q in the scan: reviewers in order, and the
\* reviews of one reviewer in list order.
Before(p, q) == p[1] < q[1] \/ (p[1] = q[1] /\ p[2] < q[2])

\* The claim id a is first encountered before the claim id b.
EncounteredBefore(vs, a, b) ==
    \E p \in ReviewPlaces(vs, a) : \A q \in ReviewPlaces(vs, b) : Before(p, q)

\* The ids of the reviewed claims of the list that the rule puts in bucket n.
IdsInBucket(cs, vs, n) ==
    {id \in {cs[j].claim_id : j \in 1..Len(cs)} :
        ReviewPlaces(vs, id) # {} /\ RuleBucket(vs, id) = n}
TextOf(cs, id) == cs[CHOOSE j \in 1..Len(cs) : cs[j].claim_id = id].canonical_text
RankIn(cs, vs, n, id) ==
    1 + Cardinality({o \in IdsInBucket(cs, vs, n) : o # id /\ EncounteredBefore(vs, o, id)})

\* C24: each bucket lists the canonical texts of its claims in the order
\* in which their claim ids are first encountered when the verdicts are
\* scanned in reviewer order and each reviewer's reviews in list order.
C24_EncounterOrder ==
    \A r \in Reqs :
        Aggregated(r) =>
            \A n \in 1..4 :
                LET bucket == Buckets(run[r].aggregation)[n]
                    ids == IdsInBucket(run[r].claims, run[r].verdicts, n)
                IN  /\ Len(bucket) = Cardinality(ids)
                    /\ \A id \in ids :
                          bucket[RankIn(run[r].claims, run[r].verdicts, n, id)]
                              = TextOf(run[r].claims, id)

\* The second claim of the list is reviewed first, by the first reviewer,
\* and again by the second reviewer after the first claim: the bucket
\* lists it first.
C24_Witness ==
    \E r \in Reqs :
        /\ Aggregated(r)
        /\ run[r].claims = <<ClaimA, ClaimB>>
        /\ ReviewPlaces(run[r].verdicts, ClaimB.claim_id) = {<<1, 1>>, <<2, 2>>}
        /\ ReviewPlaces(run[r].verdicts, ClaimA.claim_id) = {<<2, 1>>}
        /\ run[r].aggregation.supported_claims
               = <<ClaimB.canonical_text, ClaimA.canonical_text>>

(* ------------------------- review_claims as a function ------------------ *)
MaxItems == 2

\* format_claims_for_review labels the claims of the prompt "claim_<idx>",
\* without the origin model that the claim ids start with.
PromptLabel(idx) == <<"", "claim_", idx>>

\* The items a reviewer backend may write in its list of reviews.
ReviewItems ==
    {ReviewOut(ClaimA.claim_id, "Correct"),
     ReviewOut(ClaimB.claim_id, "incorrect"),
     [claim_id |-> ClaimA.claim_id, verdict |-> Str("uncertain"), reason |-> "checked",
      evidence_needed |-> TRUE],
     [verdict |-> Str("correct"), reason |-> "checked"],
     [claim_id |-> ClaimA.claim_id, verdict |-> Str("correct")],
     [claim_id |-> ClaimA.claim_id, verdict |-> Str("maybe"), reason |-> "checked"],
     [claim_id |-> ClaimA.claim_id, verdict |-> Null, reason |-> "checked"],
     [ReviewOut(ClaimA.claim_id, "correct") EXCEPT !.confidence = Str("high")],
     [ReviewOut(ClaimA.claim_id, "correct") EXCEPT !.confidence = Str("0.9")],
     [ReviewOut(ClaimB.claim_id, "correct") EXCEPT !.confidence = Null],
     ReviewOut(UnknownId, "correct"),
     ReviewOut(PromptLabel(0), "correct"),
     NonObject("number"),
     NonObject("string")}

\* What the backend of a reviewer may do: fail, answer no JSON, answer an
\* object without "reviews", or answer a list of at most max items, bare or
\* inside a code fence.
ReviewInputs(max) ==
    ServiceFailures
    \cup {Garbage(<<ShortSentence>>), JsonText([verdicts |-> <<>>])}
    \cup {JsonText([reviews |-> s]) : s \in UNION {[1..n -> ReviewItems] : n \in 0..max}}
    \cup {DirtyText([reviews |-> <<item>>]) : item \in ReviewItems}

ReviewClaimLists == {<<>>, <<ClaimA>>, <<ClaimA, ClaimB>>}

\* A run stands in the review stage with Reviewer_A, the only enabled
\* reviewer, running over any of the claim lists.
InitReview ==
    /\ settings = [DefaultSettings EXCEPT !.enable_reviewer_b = FALSE]
    /\ now = 0
    /\ store = <<>>
    /\ stats = InitStats
    /\ \E cs \in ReviewClaimLists :
          run = [r \in Reqs |->
                    [IdleRun EXCEPT !.pc = "review", !.claims = cs,
                                    !.rtasks = <<[Task("Reviewer_A") EXCEPT !.status = "running"]>>]]
    /\ returned = <<>>
    /\ down = {}
    /\ faulty = FALSE
    /\ admin = NoResult
    /\ health = IdleHealth

NextReview == \E r \in Reqs : \E resp \in ReviewInputs(MaxItems) : ReviewReturn(r, 1, resp)

ReviewSpec == InitReview /\ [][NextReview]_vars

\* The reviewer of run r has returned; what its backend answered, the list
\* of items of an answer that parsed, and the verdict dict handed back.
Reviewed(r) ==
    /\ run[r].pc = "review"
    /\ Len(run[r].rtasks) = 1
    /\ run[r].rtasks[1].status = "done"
Answer(r) == run[r].rtasks[1].resp
HasItems(r) ==
    /\ Answer(r).kind = "text"
    /\ Answer(r).shape \in {"json", "dirty"}
    /\ "reviews" \in DOMAIN Answer(r).obj
ItemsOf(r) == Answer(r).obj.reviews
VerdictOf(r) == run[r].rtasks[1].result.value
IsFallback(v) == "fallback" \in DOMAIN v.metadata

(* -------------------------------- C25 ----------------------------------- *)
\* C25: every review item of a verdict that review_claims returns has the
\* claim_id of one of the claims handed to the reviewer.
C25_Original ==
    \A r \in Reqs :
        Reviewed(r) =>
            \A k \in 1..Len(VerdictOf(r).reviews) :
                \E j \in 1..Len(run[r].claims) :
                    run[r].claims[j].claim_id = VerdictOf(r).reviews[k].claim_id

\* The backend echoes the label of the prompt, "claim_0", and the verdict
\* carries a review of it although no claim has that id.
C25_PromptLabelKept ==
    \E r \in Reqs :
        /\ Reviewed(r)
        /\ run[r].claims = <<ClaimA>>
        /\ ~IsFallback(VerdictOf(r))
        /\ Len(VerdictOf(r).reviews) = 1
        /\ VerdictOf(r).reviews[1].claim_id = PromptLabel(0)

\* The reviews of a fallback verdict name the claims handed in.
C25_FallbackIds ==
    \A r \in Reqs :
        (Reviewed(r) /\ IsFallback(VerdictOf(r))) =>
            \A k \in 1..Len(VerdictOf(r).reviews) :
                \E j \in 1..Len(run[r].claims) :
                    run[r].claims[j].claim_id = VerdictOf(r).reviews[k].claim_id

(* -------------------------------- C26 ----------------------------------- *)
\* A valid item in the words of C26: it has claim_id and reason, and its
\* verdict is, whatever its case, one of the three words.
WellFormed(item) ==
    /\ IsObject(item)
    /\ {"claim_id", "reason", "verdict"} \subseteq DOMAIN item
    /\ IsStr(item.verdict)
    /\ Upper(item.verdict.str) \in {"CORRECT", "INCORRECT", "UNCERTAIN"}
WellFormedItems(r) == SelectSeq(ItemsOf(r), WellFormed)

\* The confidence of the item is absent or a number or a numeral.
ConfidenceReadable(item) ==
    "confidence" \in DOMAIN item =>
        IsNum(item.confidence) \/ (IsStr(item.confidence) /\ item.confidence.str = "0.9")

\* The verdict keeps exactly the valid items, in order, verdicts upper-cased.
KeepsWellFormed(r) ==
    /\ ~IsFallback(VerdictOf(r))
    /\ Len(VerdictOf(r).reviews) = Len(WellFormedItems(r))
    /\ \A k \in 1..Len(WellFormedItems(r)) :
          /\ VerdictOf(r).reviews[k].claim_id = WellFormedItems(r)[k].claim_id
          /\ VerdictOf(r).reviews[k].verdict = Upper(WellFormedItems(r)[k].verdict.str)
          /\ VerdictOf(r).reviews[k].reason = WellFormedItems(r)[k].reason

\* C26: an item that lacks claim_id or reason, or whose verdict does not
\* match CORRECT, INCORRECT or UNCERTAIN whatever its case, is dropped
\* silently, and every valid item of the same response is kept with its
\* verdict in upper case: an invalid item never costs the reviewer its
\* other items.  (Stated for responses whose valid items have a readable
\* confidence.)
C26_Original ==
    \A r \in Reqs :
        (/\ Reviewed(r)
         /\ HasItems(r)
         /\ \A k \in 1..Len(ItemsOf(r)) :
               WellFormed(ItemsOf(r)[k]) => ConfidenceReadable(ItemsOf(r)[k]))
        => KeepsWellFormed(r)

\* The same when every item is an object or a string and every verdict
\* written is a string.
C26_StringVerdicts ==
    \A r \in Reqs :
        (/\ Reviewed(r)
         /\ HasItems(r)
         /\ \A k \in 1..Len(ItemsOf(r)) :
               /\ WellFormed(ItemsOf(r)[k]) => ConfidenceReadable(ItemsOf(r)[k])
               /\ ~IsObject(ItemsOf(r)[k]) => ItemsOf(r)[k].json \in {"string", "list"}
               /\ (IsObject(ItemsOf(r)[k]) /\ "verdict" \in DOMAIN ItemsOf(r)[k])
                     => IsStr(ItemsOf(r)[k].verdict))
        => KeepsWellFormed(r)

\* A valid review of the first claim is followed by an item whose verdict
\* is null: the verdict handed back is the fallback, and the valid review
\* is lost.
C26_OthersLost ==
    \E r \in Reqs :
        /\ Reviewed(r)
        /\ HasItems(r)
        /\ run[r].claims = <<ClaimA, ClaimB>>
        /\ ItemsOf(r) = <<ReviewOut(ClaimA.claim_id, "Correct"),
                          [claim_id |-> ClaimA.claim_id, verdict |-> Null, reason |-> "checked"]>>
        /\ IsFallback(VerdictOf(r))
        /\ \A k \in 1..2 : VerdictOf(r).reviews[k].verdict = "UNCERTAIN"

\* A valid review is kept next to an item whose verdict is no verdict word.
C26_Dropped ==
    \E r \in Reqs :
        /\ Reviewed(r)
        /\ HasItems(r)
        /\ ItemsOf(r) = <<[claim_id |-> ClaimA.claim_id, verdict |-> Str("maybe"),
                           reason |-> "checked"],
                          ReviewOut(ClaimA.claim_id, "Correct")>>
        /\ Len(VerdictOf(r).reviews) = 1
        /\ VerdictOf(r).reviews[1].verdict = "CORRECT"

(* -------------------------------- C27 ----------------------------------- *)
\* The confidence (in percent) and the evidence flag that C27 gives an item.
StatedConfidence(item) ==
    IF "confidence" \notin DOMAIN item THEN 50
    ELSE IF IsNum(item.confidence) THEN item.confidence.num
    ELSE IF IsStr(item.confidence) /\ item.confidence.str = "0.9" THEN 90
    ELSE 50
StatedEvidence(item) ==
    IF "evidence_needed" \in DOMAIN item THEN item.evidence_needed ELSE FALSE

AllWellFormed(r) == \A k \in 1..Len(ItemsOf(r)) : WellFormed(ItemsOf(r)[k])

\* Every item is kept, with the stated confidence and evidence flag.
KeepsAll(r) ==
    /\ ~IsFallback(VerdictOf(r))
    /\ Len(VerdictOf(r).reviews) = Len(ItemsOf(r))
    /\ \A k \in 1..Len(ItemsOf(r)) :
          /\ VerdictOf(r).reviews[k].claim_id = ItemsOf(r)[k].claim_id
          /\ VerdictOf(r).reviews[k].confidence = StatedConfidence(ItemsOf(r)[k])
          /\ VerdictOf(r).reviews[k].evidence_needed = StatedEvidence(ItemsOf(r)[k])

\* C27: a valid item whose confidence is absent or cannot be parsed as a
\* number is kept with confidence 0.5, one without evidence_needed is kept
\* with evidence_needed false, and the other items are not affected.
\* (Stated for responses all of whose items are valid.)
C27_Original ==
    \A r \in Reqs : (Reviewed(r) /\ HasItems(r) /\ AllWellFormed(r)) => KeepsAll(r)

\* The same when every confidence written is a number or a numeral.
C27_Defaults ==
    \A r \in Reqs :
        (/\ Reviewed(r)
         /\ HasItems(r)
         /\ AllWellFormed(r)
         /\ \A k \in 1..Len(ItemsOf(r)) : ConfidenceReadable(ItemsOf(r)[k]))
        => KeepsAll(r)

\* A review with confidence 0.9 is followed by a valid one whose
\* confidence is the word "high": the verdict handed back is the fallback
\* and the first review's verdict and confidence are lost.
C27_Unparseable ==
    \E r \in Reqs :
        /\ Reviewed(r)
        /\ HasItems(r)
        /\ run[r].claims = <<ClaimA, ClaimB>>
        /\ ItemsOf(r) = <<ReviewOut(ClaimB.claim_id, "incorrect"),
                          [ReviewOut(ClaimA.claim_id, "correct") EXCEPT !.confidence = Str("high")]>>
        /\ IsFallback(VerdictOf(r))
        /\ \A k \in 1..2 : /\ VerdictOf(r).reviews[k].verdict = "UNCERTAIN"
                           /\ VerdictOf(r).reviews[k].confidence = 30

\* An item without confidence and one without evidence_needed are kept
\* with the defaults.
C27_AbsentKept ==
    \E r \in Reqs :
        /\ Reviewed(r)
        /\ HasItems(r)
        /\ ItemsOf(r) = <<[claim_id |-> ClaimA.claim_id, verdict |-> Str("uncertain"),
                           reason |-> "checked", evidence_needed |-> TRUE],
                          ReviewOut(ClaimB.claim_id, "incorrect")>>
        /\ VerdictOf(r).reviews[1].confidence = 50
        /\ VerdictOf(r).reviews[1].evidence_needed
        /\ VerdictOf(r).reviews[2].confidence = 90
        /\ ~VerdictOf(r).reviews[2].evidence_needed

(* -------------------------------- C28 ----------------------------------- *)
\* The call of the backend failed, or what it answered holds no JSON object.
CallFailed(r) == Answer(r).kind = "error"
Unparsed(r) == Answer(r).kind = "text" /\ Answer(r).shape = "garbage"

\* C28: when the reviewer's backend call fails or its output cannot be
\* parsed, review_claims does not raise: it returns one review per input
\* claim, in the order of the claims, each UNCERTAIN with confidence 0.3,
\* evidence_needed true and the reason "Unable to verify due to reviewer
\* error", and metadata.fallback is true.
C28_UncertainFallback ==
    \A r \in Reqs :
        (Reviewed(r) /\ (CallFailed(r) \/ Unparsed(r))) =>
            /\ run[r].rtasks[1].result.kind = "value"
            /\ VerdictOf(r).reviewer_name = "Reviewer_A"
            /\ IsFallback(VerdictOf(r)) /\ VerdictOf(r).metadata.fallback
            /\ Len(VerdictOf(r).reviews) = Len(run[r].claims)
            /\ \A k \in 1..Len(run[r].claims) :
                  VerdictOf(r).reviews[k] =
                      [claim_id |-> run[r].claims[k].claim_id,
                       verdict |-> "UNCERTAIN",
                       reason |-> "Unable to verify due to reviewer error",
                       evidence_needed |-> TRUE,
                       confidence |-> 30]

\* The backend answered text without JSON about two claims, and the
\* verdict reviews both.
C28_Witness ==
    \E r \in Reqs :
        /\ Reviewed(r)
        /\ Unparsed(r)
        /\ run[r].claims = <<ClaimA, ClaimB>>
        /\ Len(VerdictOf(r).reviews) = 2
        /\ VerdictOf(r).reviews[2].claim_id = ClaimB.claim_id
        /\ VerdictOf(r).metadata.fallback

\* The call failed and the verdict is the fallback.
C28_CallFailed ==
    \E r \in Reqs :
        /\ Reviewed(r)
        /\ CallFailed(r)
        /\ run[r].claims = <<ClaimA, ClaimB>>
        /\ Len(VerdictOf(r).reviews) = 2

(* -------------------------------- C29 ----------------------------------- *)
\* The paraphrase loop of run r is over and it yielded no claim.
NoClaims(r) ==
    /\ run[r].opinions # <<>>
    /\ run[r].pidx = Len(run[r].opinions) + 1
    /\ run[r].claims = <<>>

FourEmptyBuckets(a) == \A n \in 1..4 : Buckets(a)[n] = <<>>

\* The final answer is one of the two fallbacks over no supported claim.
IsEmptyFallback(fa) ==
    /\ fa.confidence = 50
    /\ \/ /\ fa.final_answer = <<"Unable to synthesize answer.">>
          /\ fa.reasoning_summary = "Fallback synthesis (Chairman unavailable)"
       \/ /\ fa.final_answer =
                <<"Unable to provide a confident answer due to insufficient verified claims.">>
          /\ fa.reasoning_summary = "Fallback synthesis due to chairman error."

\* C29: if paraphrase yields no claim for any opinion, run_pipeline does
\* not fail: it goes on with an empty claim list, the aggregation has four
\* empty buckets, and the final answer is the synthesis fallback.
C29_Original ==
    \A r \in Reqs :
        (NoClaims(r) /\ run[r].pc = "done") =>
            /\ Returned(r)
            /\ run[r].outcome.value.paraphrased_claims = <<>>
            /\ FourEmptyBuckets(run[r].outcome.value.aggregation)
            /\ IsEmptyFallback(run[r].outcome.value.final_answer)

\* With a reviewer enabled the run returns with four empty buckets, and
\* the final answer is the fallback whenever the chairman is disabled or
\* its synthesis failed.
C29_EmptyAggregation ==
    \A r \in Reqs :
        (/\ NoClaims(r)
         /\ run[r].pc = "done"
         /\ settings.enable_reviewer_a \/ settings.enable_reviewer_b) =>
            /\ Returned(r)
            /\ run[r].outcome.value.paraphrased_claims = <<>>
            /\ FourEmptyBuckets(run[r].outcome.value.aggregation)
            /\ (~settings.enable_chairman \/ ChairmanFailed(r))
                  => IsEmptyFallback(run[r].outcome.value.final_answer)

\* No claim was extracted, the chairman backend answered, and the final
\* answer of the run is the chairman's.
C29_ChairmanAnswers ==
    \E r \in Reqs :
        /\ NoClaims(r)
        /\ Returned(r)
        /\ run[r].chairman = JsonText([final_answer |-> <<"Paris.">>, confidence |-> 90])
        /\ run[r].outcome.value.final_answer.final_answer = <<"Paris.">>
        /\ run[r].outcome.value.final_answer.confidence = 90

\* No claim was extracted, no reviewer is enabled, and the run fails.
C29_NoReviewer ==
    \E r \in Reqs :
        /\ NoClaims(r)
        /\ Raises(r)
        /\ ~settings.enable_reviewer_a /\ ~settings.enable_reviewer_b

(* -------------------------------- C30 ----------------------------------- *)
\* The final answer of run r came from a synthesis fallback: the chairman
\* is disabled, or its synthesis failed.
FallbackTaken(r) ==
    /\ Returned(r)
    /\ ~FromCache(r)
    /\ ~settings.enable_chairman \/ ChairmanFailed(r)

\* The first three supported claims joined by single spaces.
FirstThreeJoined(supported) == Join(Prefix(supported, 3))

FallbackSummaries ==
    {"Fallback synthesis (Chairman unavailable)", "Fallback synthesis due to chairman error."}

\* C30: whenever the synthesis fallback is taken, on any synthesis error
\* or with the chairman disabled, and the supported bucket is not empty,
\* final_answer is exactly the first three supported claims joined by
\* single spaces, confidence is 0.5 and reasoning_summary says that a
\* fallback was used.
C30_Original ==
    \A r \in Reqs :
        (FallbackTaken(r) /\ run[r].outcome.value.aggregation.supported_claims # <<>>) =>
            LET fa == run[r].outcome.value.final_answer
            IN  /\ fa.final_answer =
                      FirstThreeJoined(run[r].outcome.value.aggregation.supported_claims)
                /\ fa.confidence = 50
                /\ fa.reasoning_summary \in FallbackSummaries

\* With the chairman disabled the fallback answer is exactly the joined
\* claims; in either fallback the confidence is 0.5 and the summary names
\* the fallback.
C30_ChairmanDisabled ==
    \A r \in Reqs :
        (FallbackTaken(r) /\ run[r].outcome.value.aggregation.supported_claims # <<>>) =>
            LET fa == run[r].outcome.value.final_answer
            IN  /\ ~settings.enable_chairman =>
                      fa.final_answer =
                          FirstThreeJoined(run[r].outcome.value.aggregation.supported_claims)
                /\ fa.confidence = 50
                /\ fa.reasoning_summary \in FallbackSummaries

\* The chairman backend failed over two supported claims, and the final
\* answer starts with words that are no claim.
C30_Prefixed ==
    \E r \in Reqs :
        /\ FallbackTaken(r)
        /\ ChairmanFailed(r)
        /\ Len(run[r].outcome.value.aggregation.supported_claims) = 2
        /\ run[r].outcome.value.final_answer.final_answer =
              <<"Based on verified claims:">>
              \o FirstThreeJoined(run[r].outcome.value.aggregation.supported_claims)

(* -------------------------------- C31 ----------------------------------- *)
\* The confidences, in percent, that the reviewer and chairman backends
\* write: inside [0,1], above 1, below 0.
Confidences == {90, 150, -20}

ScoredReviews(claims) ==
    {JsonText([reviews |->
        [i \in 1..Len(claims) |->
            [ReviewOut(claims[i].claim_id, "correct") EXCEPT !.confidence = Num(c)]]]) :
     c \in Confidences}
ScoredChairman == {JsonText([final_answer |-> <<"Paris.">>, confidence |-> c]) : c \in Confidences}

\* One request, default settings; every backend answers, and the reviewer
\* and chairman backends choose the confidences they write.
InitScore ==
    /\ settings = DefaultSettings
    /\ now = 0
    /\ store = <<>>
    /\ stats = InitStats
    /\ run = [r \in Reqs |-> IdleRun]
    /\ returned = <<>>
    /\ down = {}
    /\ faulty = FALSE
    /\ admin = NoResult
    /\ health = IdleHealth

NextScore ==
    \/ \E r \in Reqs, o \in {<<>>, [enable_parallel |-> FALSE], [use_cache |-> FALSE]} :
          /\ run[r].pc = "idle"
          /\ RunPipeline(r, <<"A", "b">>, o, 1)
    \/ \E r \in Reqs, i \in 1..2, resp \in GoodStage1 : Stage1Return(r, i, resp)
    \/ \E r \in Reqs : Stage1Collect(r)
    \/ \E r \in Reqs, resp \in GoodParaphrase : ParaphraseReturn(r, resp)
    \/ \E r \in Reqs, i \in 1..2 :
          \E resp \in ScoredReviews(run[r].claims) : ReviewReturn(r, i, resp)
    \/ \E r \in Reqs : ReviewCollect(r)
    \/ \E r \in Reqs, resp \in ScoredChairman : ChairmanReturn(r, resp)

ScoreSpec == InitScore /\ [][NextScore]_vars

InUnit(c) == 0 <= c /\ c <= 100

\* C31: every confidence of a returned PipelineResult lies in [0,1]: that
\* of each review item and that of the final answer, whatever numbers the
\* reviewer and chairman backends write.
C31_Original ==
    \A r \in Reqs :
        Returned(r) =>
            /\ InUnit(run[r].outcome.value.final_answer.confidence)
            /\ \A i \in 1..Len(run[r].outcome.value.reviewer_verdicts) :
                  \A k \in 1..Len(run[r].outcome.value.reviewer_verdicts[i].reviews) :
                      InUnit(run[r].outcome.value.reviewer_verdicts[i].reviews[k].confidence)

\* A result is returned whose final answer has confidence 1.5 and one of
\* whose reviews has confidence -0.2.
C31_OutOfRange ==
    \E r \in Reqs :
        /\ Returned(r)
        /\ run[r].outcome.value.final_answer.confidence = 150
        /\ \E i \in 1..Len(run[r].outcome.value.reviewer_verdicts) :
              \E k \in 1..Len(run[r].outcome.value.reviewer_verdicts[i].reviews) :
                  run[r].outcome.value.reviewer_verdicts[i].reviews[k].confidence = -20

\* The fallbacks write confidences inside [0,1], and so does a result
\* whose backends did.
C31_BackendsInRange ==
    \A r \in Reqs :
        (/\ Returned(r)
         /\ run[r].chairman.obj.confidence = 90
         /\ \A i \in 1..Len(run[r].rtasks) :
               \A k \in 1..Len(run[r].rtasks[i].resp.obj.reviews) :
                   run[r].rtasks[i].resp.obj.reviews[k].confidence = Num(90)) =>
            /\ InUnit(run[r].outcome.value.final_answer.confidence)
            /\ \A i \in 1..Len(run[r].outcome.value.reviewer_verdicts) :
                  \A k \in 1..Len(run[r].outcome.value.reviewer_verdicts[i].reviews) :
                      InUnit(run[r].outcome.value.reviewer_verdicts[i].reviews[k].confidence)

(* --------------------- Stage-1 and paraphrase as functions -------------- *)
\* Sentences of answers: three characters, ten, eleven, thirty and more.
Yes == Sentence("Yes", 3)
Ten == Sentence("Ten chars!", 10)
Eleven == Sentence("Eleven char", 11)
LongNames == <<"Long one", "Long two", "Long three", "Long four", "Long five", "Long six">>
Long(k) == Sentence(LongNames[k], 30 + k)
PageNames == <<"Page one", "Page two">>
Page(k) == Sentence(PageNames[k], 300)

\* What a Stage-1 backend may answer: JSON with an answer of one sentence,
\* of a short one followed by five long ones, of six long ones, of
\* sentences at the length limit; or no JSON: nothing at all, three
\* characters, six hundred characters.
StageTexts ==
    {JsonText([answer_text |-> <<ParisSentence>>]),
     JsonText([answer_text |-> <<Yes, Long(1), Long(2), Long(3), Long(4), Long(5)>>]),
     JsonText([answer_text |-> <<Long(1), Long(2), Long(3), Long(4), Long(5), Long(6)>>]),
     JsonText([answer_text |-> <<Ten, Eleven>>]),
     Garbage(<<>>),
     Garbage(<<Yes>>),
     Garbage(<<Page(1), Page(2)>>)}

\* A claim item that is no string.
NotAString == [isstr |-> FALSE, body |-> "", pad |-> FALSE]

\* What the paraphrase backend may do: fail, answer no JSON, answer an
\* object without "claims", or a list of claims: one claim, none, a string
\* of whitespace, an empty string or a number before a claim.
ParaTexts ==
    ServiceFailures
    \cup {Garbage(<<ShortSentence>>),
          JsonText([sentences |-> <<>>]),
          JsonText([claims |-> <<ClaimStr("Paris is the capital of France.", FALSE)>>]),
          JsonText([claims |-> <<>>]),
          JsonText([claims |-> <<ClaimStr("", TRUE)>>]),
          JsonText([claims |-> <<ClaimStr("", FALSE), ClaimStr("France is in Europe.", TRUE)>>]),
          JsonText([claims |-> <<ClaimStr("Paris is in France.", FALSE), NotAString,
                                 ClaimStr("France is in Europe.", FALSE)>>])}

InitPara ==
    /\ settings \in {DefaultSettings, [DefaultSettings EXCEPT !.enable_stage1_hf = FALSE]}
    /\ now = 0
    /\ store = <<>>
    /\ stats = InitStats
    /\ run = [r \in Reqs |-> IdleRun]
    /\ returned = <<>>
    /\ down = {}
    /\ faulty = FALSE
    /\ admin = NoResult
    /\ health = IdleHealth

\* One request, from its start to the dispatch of Review.
NextPara ==
    \/ \E r \in Reqs : run[r].pc = "idle" /\ RunPipeline(r, <<"A", "b">>, <<>>, 1)
    \/ \E r \in Reqs, i \in 1..2 :
          /\ i <= Len(run[r].tasks)
          /\ \E resp \in StageTexts : Stage1Return(r, i, resp)
    \/ \E r \in Reqs : Stage1Collect(r)
    \/ \E r \in Reqs, resp \in ParaTexts : ParaphraseReturn(r, resp)

ParaSpec == InitPara /\ [][NextPara]_vars

(* -------------------------------- C32 ----------------------------------- *)
\* No JSON object parses from what the backend of Stage-1 task i answered.
NoJson(r, i) ==
    /\ run[r].tasks[i].status = "done"
    /\ run[r].tasks[i].resp.kind = "text"
    /\ run[r].tasks[i].resp.shape = "garbage"

\* t holds the first n characters of raw.
IsFirstChars(t, raw, n) ==
    /\ Len(t) <= Len(raw)
    /\ \A k \in 1..Len(t) : t[k].s = raw[k].s /\ t[k].len <= raw[k].len /\ t[k].len > 0
    /\ \A k \in 1..(Len(t) - 1) : t[k].len = raw[k].len
    /\ TextLen(t) = (IF TextLen(raw) < n THEN TextLen(raw) ELSE n)

\* C32: the Stage-1 parser never fails: a response from which no JSON
\* object parses yields an opinion whose answer_text is the first 500
\* characters of the raw response, with empty claims and citations and
\* metadata.parse_error true; the opinion counts as a Stage-1 opinion and
\* is handed to paraphrase.
C32_ParseErrorOpinion ==
    \A r \in Reqs : \A i \in 1..Len(run[r].tasks) :
        NoJson(r, i) =>
            LET op == run[r].tasks[i].result.value
            IN  /\ run[r].tasks[i].result.kind = "value"
                /\ op.model_name = run[r].tasks[i].name
                /\ IsFirstChars(op.answer_text, run[r].tasks[i].resp.raw, 500)
                /\ op.claims = <<>> /\ op.citations = <<>>
                /\ op.metadata = [parse_error |-> TRUE]
                /\ run[r].pc \notin {"idle", "stage1"} =>
                      /\ ~Raises(r)
                      /\ \E k \in 1..Len(run[r].opinions) : run[r].opinions[k] = op
                /\ run[r].pc = "review" =>
                      /\ Len(run[r].presps) = Len(run[r].opinions)
                      /\ CallCount(r, "GPT-J-6B") = Len(run[r].opinions)

\* Both Stage-1 backends answered without JSON, one of them six hundred
\* characters; both opinions went through paraphrase, the long one cut to
\* five hundred characters.
C32_Witness ==
    \E r \in Reqs :
        /\ run[r].pc = "review"
        /\ Len(run[r].tasks) = 2
        /\ NoJson(r, 1) /\ NoJson(r, 2)
        /\ run[r].tasks[1].resp.raw = <<Page(1), Page(2)>>
        /\ Len(run[r].opinions) = 2
        /\ run[r].opinions[1].answer_text = <<Page(1), Sentence("Page two", 200)>>
        /\ Len(run[r].presps) = 2

(* -------------------------------- C33 ----------------------------------- *)
\* The paraphrase backend was called for opinion k of run r and answered.
Paraphrased(r, k) == k \in 1..Len(run[r].presps)

\* The claims of run r that stem from opinion k, in the order of the list
\* (the opinions of one run carry different model names).
ClaimsFor(r, k) ==
    SelectSeq(run[r].claims, LAMBDA c : c.original_model = run[r].opinions[k].model_name)

\* The call for opinion k failed, or its output holds no JSON object.
ParaphraseFell(r, k) ==
    /\ Paraphrased(r, k)
    /\ \/ run[r].presps[k].kind = "error"
       \/ run[r].presps[k].kind = "text" /\ run[r].presps[k].shape = "garbage"

\* The first five of the segments of a text that are longer than ten
\* characters.
FirstFiveLong(text) == Prefix(SelectSeq(text, LAMBDA s : s.len > 10), 5)

\* C33: on a paraphrase backend error or unparseable output the claims
\* emitted are the first five segments of answer_text longer than 10
\* characters, each with a trailing '.', with ids
\* <lowercased model>_claim_<index>.
C33_Original ==
    \A r \in Reqs : \A k \in 1..Len(run[r].opinions) :
        ParaphraseFell(r, k) =>
            LET cs == ClaimsFor(r, k)
                want == FirstFiveLong(run[r].opinions[k].answer_text)
            IN  /\ Len(cs) = Len(want)
                /\ \A j \in 1..Len(cs) :
                      /\ cs[j].canonical_text = <<want[j].s, ".">>
                      /\ \E n \in 0..Len(run[r].opinions[k].answer_text) :
                            cs[j].claim_id = ClaimId(run[r].opinions[k].model_name, n)

\* An answer of a three-character sentence followed by five long ones: the
\* fallback emits four claims, the fifth long sentence is left out.
C33_FifthLeftOut ==
    \E r \in Reqs : \E k \in 1..Len(run[r].opinions) :
        /\ ParaphraseFell(r, k)
        /\ run[r].opinions[k].answer_text = <<Yes, Long(1), Long(2), Long(3), Long(4), Long(5)>>
        /\ Len(ClaimsFor(r, k)) = 4
        /\ \A j \in 1..4 : ClaimsFor(r, k)[j].canonical_text = <<Long(j).s, ".">>

\* What the fallback does emit: of the first five non-empty segments those
\* longer than ten characters, each with a trailing '.'.
C33_LongOfFirstFive ==
    \A r \in Reqs : \A k \in 1..Len(run[r].opinions) :
        ParaphraseFell(r, k) =>
            LET cs == ClaimsFor(r, k)
                want == SelectSeq(Prefix(SelectSeq(run[r].opinions[k].answer_text,
                                                   LAMBDA s : s.len > 0), 5),
                                  LAMBDA s : s.len > 10)
            IN  /\ Len(cs) = Len(want)
                /\ \A j \in 1..Len(cs) : cs[j].canonical_text = <<want[j].s, ".">>

(* -------------------------------- C34 ----------------------------------- *)
\* The index of a claim id.
IndexOf(c) == c.claim_id[3]

\* C34: for each origin model the claims emitted carry the indices
\* 0, 1, ..., k-1 in output order with no gap, on the primary and on the
\* fallback path.
C34_Original ==
    \A r \in Reqs : \A k \in 1..Len(run[r].opinions) :
        Paraphrased(r, k) =>
            \A j \in 1..Len(ClaimsFor(r, k)) : IndexOf(ClaimsFor(r, k)[j]) = j - 1

\* On the primary path a list whose second item is a number yields the
\* indices 0 and 2.
C34_PrimaryGap ==
    \E r \in Reqs : \E k \in 1..Len(run[r].opinions) :
        /\ Paraphrased(r, k)
        /\ ~ParaphraseFell(r, k)
        /\ Len(ClaimsFor(r, k)) = 2
        /\ IndexOf(ClaimsFor(r, k)[1]) = 0
        /\ IndexOf(ClaimsFor(r, k)[2]) = 2

\* On the fallback path an answer that starts with a short sentence yields
\* the indices 1, 2, 3, 4.
C34_FallbackGap ==
    \E r \in Reqs : \E k \in 1..Len(run[r].opinions) :
        /\ ParaphraseFell(r, k)
        /\ Len(ClaimsFor(r, k)) = 4
        /\ \A j \in 1..4 : IndexOf(ClaimsFor(r, k)[j]) = j

\* The paraphrase output for opinion k holds a JSON object with "claims".
PrimaryPath(r, k) ==
    /\ Paraphrased(r, k)
    /\ run[r].presps[k].kind = "text"
    /\ run[r].presps[k].shape = "json"
    /\ "claims" \in DOMAIN run[r].presps[k].obj

\* The non-empty segments of the answer of opinion k.
Segments(r, k) == SelectSeq(run[r].opinions[k].answer_text, LAMBDA s : s.len > 0)

\* C34 (amended): the index of a claim is the 0-based position of what it
\* was made from: of the item in the backend's claims list on the primary
\* path, of the segment among the first five non-empty segments on the
\* fallback path; the indices of one model increase in output order, with
\* a gap wherever an item or a segment was skipped.
C34_SourcePosition ==
    \A r \in Reqs : \A k \in 1..Len(run[r].opinions) :
        Paraphrased(r, k) =>
            LET cs == ClaimsFor(r, k)
            IN  /\ \A i, j \in 1..Len(cs) : i < j => IndexOf(cs[i]) < IndexOf(cs[j])
                /\ \A j \in 1..Len(cs) :
                      LET n == IndexOf(cs[j]) + 1
                      IN  IF PrimaryPath(r, k)
                          THEN /\ n \in 1..Len(run[r].presps[k].obj.claims)
                               /\ run[r].presps[k].obj.claims[n].isstr
                               /\ cs[j].canonical_text =
                                     (IF run[r].presps[k].obj.claims[n].body = ""
                                      THEN <<>> ELSE <<run[r].presps[k].obj.claims[n].body>>)
                          ELSE /\ n \in 1..5
                               /\ n <= Len(Segments(r, k))
                               /\ cs[j].canonical_text = <<Segments(r, k)[n].s, ".">>

(* -------------------------------- C35 ----------------------------------- *)
\* C35: no two paraphrased claims of a request share a claim_id and no two
\* Stage-1 opinions share a model label, whichever mix of primary and
\* fallback paraphrase paths produced the claims.
C35_UniqueIds ==
    \A r \in Reqs :
        /\ \A i, j \in 1..Len(run[r].claims) :
              run[r].claims[i].claim_id = run[r].claims[j].claim_id => i = j
        /\ \A i, j \in 1..Len(run[r].opinions) :
              run[r].opinions[i].model_name = run[r].opinions[j].model_name => i = j

\* Two opinions went through paraphrase, the first on the primary path
\* with two claims, the second on the fallback path with four.
C35_Witness ==
    \E r \in Reqs :
        /\ run[r].pc = "review"
        /\ Len(run[r].opinions) = 2
        /\ PrimaryPath(r, 1) /\ Len(ClaimsFor(r, 1)) = 2
        /\ ParaphraseFell(r, 2) /\ Len(ClaimsFor(r, 2)) = 4
        /\ Len(run[r].claims) = 6

(* -------------------------------- C36 ----------------------------------- *)
\* C36: every claim produced by extract_claims, on the primary or the
\* fallback path, has a non-empty canonical_text, for every backend output
\* (claim strings made only of whitespace included).
C36_Original ==
    \A r \in Reqs : \A j \in 1..Len(run[r].claims) : run[r].claims[j].canonical_text # <<>>

\* The backend wrote a claim of whitespace only; the claim made from it has
\* an empty canonical_text.
C36_EmptyText ==
    \E r \in Reqs : \E k \in 1..Len(run[r].opinions) :
        /\ PrimaryPath(r, k)
        /\ run[r].presps[k].obj.claims = <<ClaimStr("", TRUE)>>
        /\ Len(ClaimsFor(r, k)) = 1
        /\ ClaimsFor(r, k)[1].canonical_text = <<>>

\* A canonical_text is empty only where the backend's item was whitespace;
\* the claims of the fallback path are never empty.
C36_OnlyWhitespace ==
    \A r \in Reqs : \A k \in 1..Len(run[r].opinions) :
        Paraphrased(r, k) =>
            \A j \in 1..Len(ClaimsFor(r, k)) :
                ClaimsFor(r, k)[j].canonical_text = <<>> =>
                    /\ PrimaryPath(r, k)
                    /\ run[r].presps[k].obj.claims[IndexOf(ClaimsFor(r, k)[j]) + 1]
                          = ClaimStr("", TRUE)

(* -------------------------------- C37 ----------------------------------- *)
\* The run of request r is past _run_review.
ReviewOver(r) == run[r].pc \in {"chairman", "done"} /\ Len(run[r].stage_timings) >= 2

\* The coroutine named `name` of the list was run to its end: its backend
\* answered or failed, and the coroutine returned or raised.
RanToEnd(tasks, name) ==
    \E i \in 1..Len(tasks) :
        /\ tasks[i].name = name
        /\ tasks[i].status = "done"
        /\ tasks[i].resp.kind \in {"error", "text"}
        /\ tasks[i].result.kind \in {"value", "exception"}

\* Request r dispatches the stage sequentially.
Sequential(r, flag) == ~(Get(run[r].options, "enable_parallel", TRUE) /\ settings[flag])

\* C37: within Stage-1 and within Review the failure of one invoker never
\* cancels or skips a sibling: once the stage is over, every enabled
\* invoker of the stage was called and ran to its end, in parallel and in
\* sequential dispatch, with skip_failed_models true or false.
C37_SiblingsRun ==
    \A r \in Reqs :
        /\ Stage1Left(r) =>
              \A name \in {"Llama-7B", "GPT-OSS-20B"} :
                  Stage1Enabled(name) => Called(r, name) /\ RanToEnd(run[r].tasks, name)
        /\ ReviewOver(r) =>
              \A name \in {"Reviewer_A", "Reviewer_B"} :
                  ReviewerEnabled(name) =>
                      Called(r, ReviewerModel(name)) /\ RanToEnd(run[r].rtasks, name)

\* Sequential dispatch with skip_failed_models false: the first Stage-1
\* invoker raised, the second was still called and returned its opinion,
\* and then the request failed.
C37_Witness ==
    \E r \in Reqs :
        /\ Sequential(r, "enable_parallel_stage1")
        /\ ~SkipFailed(r)
        /\ Len(run[r].tasks) = 2
        /\ run[r].tasks[1].result.kind = "exception"
        /\ run[r].tasks[2].result.kind = "value"
        /\ Called(r, "GPT-OSS-20B")
        /\ Raises(r)

\* Parallel dispatch: the backend of reviewer A failed, reviewer B was
\* called and answered, and the request returned.
C37_ReviewerSibling ==
    \E r \in Reqs :
        /\ ~Sequential(r, "enable_parallel_reviewers")
        /\ Len(run[r].rtasks) = 2
        /\ run[r].rtasks[1].resp.kind = "error"
        /\ run[r].rtasks[2].resp.kind = "text"
        /\ Returned(r)

(* -------------------------------- C38 ----------------------------------- *)
\* The names of a list of coroutines, and the enabled names of a stage in
\* the order of enabling.
NamesOf(tasks) == [i \in 1..Len(tasks) |-> tasks[i].name]
EnabledStage1 == SelectSeq(<<"Llama-7B", "GPT-OSS-20B">>, Stage1Enabled)
EnabledReviewers == SelectSeq(<<"Reviewer_A", "Reviewer_B">>, ReviewerEnabled)

\* The claims of the first n answered paraphrase calls of request r, one
\* opinion after the other.
RECURSIVE ClaimsUpTo(_, _)
ClaimsUpTo(r, n) ==
    IF n = 0 THEN <<>>
    ELSE ClaimsUpTo(r, n - 1)
         \o ExtractClaims(run[r].opinions[n].model_name, run[r].opinions[n].answer_text,
                          run[r].presps[n])

\* C38: for the same backend outputs the Stage-1 opinion list, the
\* reviewer verdict list and the paraphrased claims with their order do
\* not depend on the order in which the invokers complete nor on parallel
\* or sequential dispatch: the opinions are what the enabled Stage-1
\* invokers returned, local before hosted, the verdicts what the enabled
\* reviewers returned, A before B, and the claims those of the opinions in
\* that order.
C38_EnableOrder ==
    \A r \in Reqs :
        /\ (run[r].pc = "stage1" \/ Stage1Left(r)) => NamesOf(run[r].tasks) = EnabledStage1
        /\ (run[r].pc \in {"paraphrase", "review", "chairman"} \/ (Returned(r) /\ ~FromCache(r))) =>
              /\ run[r].opinions = ReturnedBy(run[r].tasks)
              /\ run[r].claims = ClaimsUpTo(r, Len(run[r].presps))
        /\ (run[r].pc = "review" \/ ReviewOver(r)) => NamesOf(run[r].rtasks) = EnabledReviewers
        /\ run[r].pc = "chairman" => run[r].verdicts = ReturnedBy(run[r].rtasks)
        /\ (Returned(r) /\ ~FromCache(r)) =>
              /\ run[r].outcome.value.reviewer_verdicts = ReturnedBy(run[r].rtasks)
              /\ run[r].outcome.value.stage1_opinions = run[r].opinions
              /\ run[r].outcome.value.paraphrased_claims = run[r].claims

\* A returned run of two Stage-1 invokers with different answers and two
\* reviewers of which one fell back, dispatched in parallel: the opinion of
\* the local invoker comes first, the verdict of reviewer A comes first.
C38_Witness ==
    \E r \in Reqs :
        /\ Returned(r) /\ ~FromCache(r)
        /\ ~Sequential(r, "enable_parallel_stage1")
        /\ ~Sequential(r, "enable_parallel_reviewers")
        /\ Len(run[r].opinions) = 2
        /\ run[r].tasks[1].resp # run[r].tasks[2].resp
        /\ run[r].opinions[1].model_name = "Llama-7B"
        /\ Len(run[r].outcome.value.reviewer_verdicts) = 2
        /\ run[r].rtasks[1].resp # run[r].rtasks[2].resp
        /\ run[r].outcome.value.reviewer_verdicts[1].reviewer_name = "Reviewer_A"

\* In parallel dispatch the hosted invoker has completed while the local
\* one is still running.
C38_HostedFirst ==
    \E r \in Reqs :
        /\ run[r].pc = "stage1"
        /\ Len(run[r].tasks) = 2
        /\ run[r].tasks[1].status = "running"
        /\ run[r].tasks[2].status = "done"

(* -------------------------------- C39 ----------------------------------- *)
\* Two request slots with one query and no options, one Stage-1 invoker and
\* one reviewer; the backends give one of two answers to each call, so that
\* the results of two requests differ in their opinions, in their final
\* answers, or only in their request ids.
RaceStage1 ==
    {JsonText([answer_text |-> <<ParisSentence>>]), JsonText([answer_text |-> <<Long(1)>>])}
RaceChairman ==
    {JsonText([final_answer |-> <<"Paris.">>, confidence |-> 90]),
     JsonText([final_answer |-> <<"Lyon.">>, confidence |-> 90])}

InitRace ==
    /\ settings = [DefaultSettings EXCEPT !.enable_stage1_hf = FALSE, !.enable_reviewer_b = FALSE]
    /\ now = 0
    /\ store = <<>>
    /\ stats = InitStats
    /\ run = [r \in Slots |-> IdleRun]
    /\ returned = <<>>
    /\ down = {}
    /\ faulty = FALSE
    /\ admin = NoResult
    /\ health = IdleHealth

NextRace ==
    \/ \E r \in Slots :
          /\ stats.total_queries < MaxRuns + 1
          /\ RunPipeline(r, <<"A", "b">>, <<>>, stats.total_queries + 1)
    \/ \E r \in Slots, resp \in RaceStage1 : Stage1Return(r, 1, resp)
    \/ \E r \in Slots : Stage1Collect(r)
    \/ \E r \in Slots, resp \in GoodParaphrase : ParaphraseReturn(r, resp)
    \/ \E r \in Slots : \E resp \in GoodReviews(run[r].claims) : ReviewReturn(r, 1, resp)
    \/ \E r \in Slots : ReviewCollect(r)
    \/ \E r \in Slots, resp \in RaceChairman : ChairmanReturn(r, resp)
    \/ Tick

RaceSpec == InitRace /\ [][NextRace]_vars

\* The key of the one query of the race, and what a get for it returns.
RaceKey == GenerateKey(<<"A", "b">>, <<>>)
Stored == IF RaceKey \in DOMAIN store /\ store[RaceKey].expire_time > now
          THEN store[RaceKey].value ELSE NoResult

\* The step starts the call of slot r with a miss / answers it from the
\* cache / ends it with the result of the stages.
MissStep(r) == run[r].pc \in {"idle", "done"} /\ run'[r].pc = "stage1"
CachedStep(r) ==
    /\ run[r].pc \in {"idle", "done"}
    /\ run'[r].request_id # run[r].request_id
    /\ run'[r].pc = "done"
ResultStep(r) ==
    /\ run[r].pc \notin {"idle", "done"}
    /\ run'[r].pc = "done"
    /\ run'[r].outcome.kind = "value"

\* A complete result: the six parts of a PipelineResult with the timings
\* of all five stages.
IsComplete(v) ==
    /\ DOMAIN v = {"query", "stage1_opinions", "paraphrased_claims", "reviewer_verdicts",
                   "aggregation", "final_answer", "metadata"}
    /\ v.stage1_opinions # <<>> /\ v.paraphrased_claims # <<>> /\ v.reviewer_verdicts # <<>>
    /\ v.metadata.stage_timings = FiveStages

\* C39: when two requests with the same (query, options) run concurrently
\* and both miss the cache, both execute the full pipeline, and every later
\* get for the key returns the complete result of exactly one of them, the
\* one whose set happened last: a request that ends writes its own whole
\* result over the entry, no other step changes the entry, and a hit
\* returns the entry as it is.
C39_LastWriterWins ==
    [][\A r \in Slots :
          /\ MissStep(r) => run'[r].calls = <<"Llama-7B">>
          /\ ResultStep(r) =>
                /\ \A b \in {"Llama-7B", "GPT-J-6B", "Mistral-7B", "Gemini-1.5-Pro"} :
                      CallCount(r, b) = 1
                /\ IsComplete(run'[r].outcome.value)
                /\ Stored' = run'[r].outcome.value
          /\ CachedStep(r) =>
                /\ Stored # NoResult
                /\ run'[r].outcome.value = Stored
                /\ Stored' = Stored
          /\ (\A s \in Slots : ~ResultStep(s)) => store' = store
      ]_vars

\* Both slots missed and ran the stages, with different opinions and
\* different final answers; the entry is the whole result of the second
\* request and no part of it is the first one's.
C39_Witness ==
    /\ \A r \in Slots : Returned(r) /\ run[r].tasks # <<>> /\ run[r].request_id = r
    /\ run[1].opinions # run[2].opinions
    /\ run[1].outcome.value.final_answer # run[2].outcome.value.final_answer
    /\ Stored = run[2].outcome.value
    /\ run[2].calls # <<>>

\* After the race a third request was answered from the cache with the
\* result of the first request, which ended last.
C39_LaterGet ==
    /\ stats.total_queries = 3
    /\ Returned(2) /\ run[2].tasks # <<>> /\ run[2].request_id = 2
    /\ Returned(1) /\ run[1].tasks = <<>> /\ run[1].request_id = 3
    /\ run[1].outcome.value.metadata.request_id = 1
    /\ run[1].outcome.value = Stored
    /\ Stored.stage1_opinions # run[2].outcome.value.stage1_opinions

(* -------------------------------- C40 ----------------------------------- *)
\* The answer holds no JSON object, or one that fails the validation of the
\* stage (a missing field).
Unusable(resp) ==
    /\ resp.kind = "text"
    /\ \/ resp.shape = "garbage"
       \/ resp.shape = "json" /\ DOMAIN resp.obj = {"note"}

\* What a backend may answer at each stage: a usable object, text without
\* a JSON object, or an object without the field the stage looks for.
Garbled(good) ==
    good \cup {Garbage(<<ShortSentence>>), JsonText([note |-> <<"none">>])}

\* One request whose every backend call may come back unusable.
NextGarbled ==
    \/ \E r \in Reqs, o \in {<<>>, [enable_parallel |-> FALSE]} :
          run[r].pc = "idle" /\ RunPipeline(r, <<"A", "b">>, o, 1)
    \/ \E r \in Reqs, i \in 1..2, resp \in Garbled(GoodStage1) : Stage1Return(r, i, resp)
    \/ \E r \in Reqs : Stage1Collect(r)
    \/ \E r \in Reqs, resp \in Garbled(GoodParaphrase) : ParaphraseReturn(r, resp)
    \/ \E r \in Reqs, i \in 1..2 :
          \E resp \in Garbled(GoodReviews(run[r].claims)) : ReviewReturn(r, i, resp)
    \/ \E r \in Reqs : ReviewCollect(r)
    \/ \E r \in Reqs, resp \in Garbled(GoodChairman) : ChairmanReturn(r, resp)

GarbledSpec == InitScore /\ [][NextGarbled]_vars

\* C40: a parse or validation failure never triggers a re-invocation:
\* within one request each enabled Stage-1 invoker and each enabled
\* reviewer backend is called at most once, the paraphrase backend at most
\* once per Stage-1 opinion, and the chairman backend at most once.
C40_CalledOnce ==
    \A r \in Reqs :
        /\ \A b \in {"Llama-7B", "GPT-OSS-20B", "Mistral-7B", "DeepSeek-7B", "Gemini-1.5-Pro"} :
              CallCount(r, b) <= 1
        /\ CallCount(r, "GPT-J-6B") <= Len(run[r].opinions)
        /\ Len(run[r].presps) <= CallCount(r, "GPT-J-6B")
        /\ CallCount(r, "GPT-J-6B") <= Len(run[r].presps) + 1

\* A returned run in which a Stage-1 invoker, the paraphrase backend for
\* both opinions, a reviewer and the chairman each answered without usable
\* JSON, and each backend was called once, the paraphrase backend twice.
C40_Witness ==
    \E r \in Reqs :
        /\ Returned(r) /\ ~FromCache(r)
        /\ Len(run[r].opinions) = 2
        /\ \A i \in 1..2 : Unusable(run[r].tasks[i].resp)
        /\ run[r].presps[1].shape = "garbage" /\ run[r].presps[2].shape = "json"
        /\ Unusable(run[r].presps[2])
        /\ \E i \in 1..Len(run[r].rtasks) : Unusable(run[r].rtasks[i].resp)
        /\ Unusable(run[r].chairman)
        /\ \A b \in {"Llama-7B", "GPT-OSS-20B", "Mistral-7B", "DeepSeek-7B", "Gemini-1.5-Pro"} :
              CallCount(r, b) = 1
        /\ CallCount(r, "GPT-J-6B") = 2

============================================================================
